---- MODULE Spec2Model ----
\* Dynamic query assembly and validation of the no-code extraction tool
\* (src/SQL_suport+): Catalog lookup, Validator, Query Compiler, execute_query
\* and the session state they read and write.
\*
\* Text is modelled as a sequence of tokens (each token a STRING standing for
\* a run of characters), so that formatting, escaping and key parsing are
\* computed, not assumed.  A Python value is a record [ty, v].
EXTENDS Integers, Sequences, FiniteSets, TLC

VARIABLES
    ss,         \* st.session_state: the QueryState of the session
    cache,      \* the Catalog as get_table_schema serves it (table -> rows)
    warehouse,  \* the warehouse's current tables (table -> rows)
    run         \* what the last call / script run did (its observable outputs)

vars == <<ss, cache, warehouse, run>>

\* ---------------------------------------------------------------- bounds
MaxJoins == 2
MaxFilters == 2
MaxSessionJoins == 1    \* joins a session adds through the join panel

\* ---------------------------------------------------------------- values
None == "None"
Missing == "<missing>"          \* a dict key that is absent (d['k'] raises KeyError)

PyList(s) == [ty |-> "list", v |-> s]
PyDict(d) == [ty |-> "dict", v |-> d]
PyStr(s)  == [ty |-> "str",  v |-> s]
PyNum(n)  == [ty |-> "num",  v |-> n]
PyFloat(n) == [ty |-> "float", v |-> n]     \* the float n.0
PyNone    == [ty |-> "none", v |-> <<>>]
PyDate(s) == [ty |-> "date", v |-> s]       \* a datetime.date, v = str(date)

\* Python truthiness of a value (bool(x))
Truthy(x) ==
    CASE x.ty = "list" -> x.v # <<>>
      [] x.ty = "dict" -> DOMAIN x.v # {}
      [] x.ty = "str"  -> x.v # <<>>
      [] x.ty = "num"  -> x.v # 0
      [] x.ty = "float" -> x.v # 0
      [] x.ty = "date" -> TRUE
      [] OTHER         -> FALSE

\* truthiness of a name held as a string (None and '' are falsy)
NameSet(s) == s # None /\ s # "" /\ s # Missing
\* truthiness of a text (a token sequence): '' is falsy
TextSet(t) == t # <<>>

RECURSIVE Concat(_)
Concat(ss_) ==
    IF ss_ = <<>> THEN <<>> ELSE Head(ss_) \o Concat(Tail(ss_))

\* sep.join(texts)
RECURSIVE JoinText(_, _)
JoinText(texts, sep) ==
    IF texts = <<>> THEN <<>>
    ELSE IF Len(texts) = 1 THEN texts[1]
    ELSE texts[1] \o sep \o JoinText(Tail(texts), sep)

SeqsUpTo(S, n) == UNION {[1..k -> S] : k \in 0..n}

\* ---------------------------------------------------------------- catalog
\* One row of information_schema.columns as get_table_schema returns it,
\* with the outcome of the SELECT DISTINCT probe that get_dynamic_columns
\* may run on the column.
Row(n, t, ok, vals) == [name |-> n, type |-> t, probe_ok |-> ok, distinct |-> vals]

StringTypes  == {"VARCHAR", "CHAR", "STRING", "TEXT"}
DateTypes    == {"DATE", "TIMESTAMP", "TIMESTAMP_NTZ", "TIMESTAMP_LTZ"}
NumericTypes == {"NUMBER", "DECIMAL", "INTEGER", "BIGINT", "FLOAT", "DOUBLE"}
Keywords     == {"category", "region", "status", "type"}

\* str.lower() on one token
LowerTok(t) ==
    CASE t = "STATUS" -> "status"
      [] t = "A" -> "a"
      [] t = "N" -> "n"
      [] t = "D" -> "d"
      [] t = "K" -> "k"
      [] t = "X" -> "x"
      [] t = "Z" -> "z"
      [] OTHER -> t

\* any(keyword in col_name.lower() for keyword in [...])
HasKeyword(name) == \E i \in DOMAIN name : LowerTok(name[i]) \in Keywords

\* mutant: the final else is missing, a column of an unrecognised type gets
\* no entry (a lookup yields None)
ColumnConfig_UnknownIsNone(row) ==
    IF row.type \in StringTypes
    THEN IF HasKeyword(row.name) /\ row.probe_ok
         THEN PyList(row.distinct)
         ELSE PyList(<<>>)
    ELSE IF row.type \in DateTypes THEN PyStr(<<"date_range">>)
    ELSE IF row.type \in NumericTypes THEN PyStr(<<"numeric_range">>)
    ELSE PyNone

\* the entry get_dynamic_columns stores for one column
ColumnConfig(row) ==
    IF row.type \in StringTypes
    THEN IF HasKeyword(row.name) /\ row.probe_ok
         THEN PyList(row.distinct)
         ELSE PyList(<<>>)
    ELSE IF row.type \in DateTypes THEN PyStr(<<"date_range">>)
    ELSE IF row.type \in NumericTypes THEN PyStr(<<"numeric_range">>)
    ELSE PyList(<<>>)

\* get_table_schema: the cached rows of a table; a table the Catalog does not
\* hold (or whose fetch failed) has no rows
get_table_schema(cat, table) ==
    IF table \in DOMAIN cat THEN cat[table] ELSE <<>>

\* get_dynamic_columns: the ordered mapping column -> config, {} on any failure
get_dynamic_columns(cat, table) ==
    LET rows == get_table_schema(cat, table)
    IN  [i \in DOMAIN rows |-> [name |-> rows[i].name, cfg |-> ColumnConfig(rows[i])]]

\* `col in columns` for the mapping above
InColumns(col, columns) == \E i \in DOMAIN columns : columns[i].name = col

ColumnCfg(col, columns) ==
    columns[CHOOSE i \in DOMAIN columns : columns[i].name = col].cfg

\* ---------------------------------------------------------------- messages
\* A validation message: which rule produced it and what it names
\* (join is the 1-based join number the text shows, 0 when none).
Msg(k, i, col, tab) == [kind |-> k, join |-> i, column |-> col, table |-> tab]

ErrNoMainTable          == Msg("NoMainTable", 0, <<>>, "")
ErrJoinTable(i)         == Msg("JoinTableMissing", i, <<>>, "")
ErrJoinColumns(i)       == Msg("JoinColumnsMissing", i, <<>>, "")
ErrJoinColumn(i, c, t)  == Msg("JoinColumnNotInTable", i, c, t)
WarnJoinColumns(i, t)   == Msg("JoinColumnsUnavailable", i, <<>>, t)
WarnJoinException(i)    == Msg("JoinValidationException", i, <<>>, "")
WarnFilterColumn(c)     == Msg("FilterColumnNotInMain", 0, c, "")

\* ---------------------------------------------------------------- validator
\* mutant: the error names the 0-based loop index instead of i+1
ValidateJoin_ZeroBased(cat, i, join_info) ==
    LET e1 == IF ~NameSet(join_info.table) THEN <<ErrJoinTable(i)>> ELSE <<>>
        e2 == IF ~TextSet(join_info.left_col) \/ ~TextSet(join_info.right_col)
              THEN <<ErrJoinColumns(i)>> ELSE <<>>
        join_columns == get_dynamic_columns(cat, join_info.table)
    IN  IF join_info.table = Missing
        THEN [errors |-> e1 \o e2, warnings |-> <<WarnJoinException(i)>>]
        ELSE IF join_columns = <<>>
        THEN [errors |-> e1 \o e2,
              warnings |-> <<WarnJoinColumns(i, join_info.table)>>]
        ELSE IF TextSet(join_info.right_col)
                /\ ~InColumns(join_info.right_col, join_columns)
        THEN [errors |-> e1 \o e2
                  \o <<ErrJoinColumn(i - 1, join_info.right_col, join_info.table)>>,
              warnings |-> <<>>]
        ELSE [errors |-> e1 \o e2, warnings |-> <<>>]

\* mutant: an un-introspectable join table is reported as an error
ValidateJoin_UnfetchableIsError(cat, i, join_info) ==
    LET e1 == IF ~NameSet(join_info.table) THEN <<ErrJoinTable(i)>> ELSE <<>>
        e2 == IF ~TextSet(join_info.left_col) \/ ~TextSet(join_info.right_col)
              THEN <<ErrJoinColumns(i)>> ELSE <<>>
        join_columns == get_dynamic_columns(cat, join_info.table)
    IN  IF join_info.table = Missing
        THEN [errors |-> e1 \o e2, warnings |-> <<WarnJoinException(i)>>]
        ELSE IF join_columns = <<>>
        THEN [errors |-> e1 \o e2 \o <<WarnJoinColumns(i, join_info.table)>>,
              warnings |-> <<>>]
        ELSE IF TextSet(join_info.right_col)
                /\ ~InColumns(join_info.right_col, join_columns)
        THEN [errors |-> e1 \o e2
                  \o <<ErrJoinColumn(i, join_info.right_col, join_info.table)>>,
              warnings |-> <<>>]
        ELSE [errors |-> e1 \o e2, warnings |-> <<>>]

\* the body of the loop over join_conditions for the join at 0-based index i-1
ValidateJoin(cat, i, join_info) ==
    LET e1 == IF ~NameSet(join_info.table) THEN <<ErrJoinTable(i)>> ELSE <<>>
        e2 == IF ~TextSet(join_info.left_col) \/ ~TextSet(join_info.right_col)
              THEN <<ErrJoinColumns(i)>> ELSE <<>>
        join_columns == get_dynamic_columns(cat, join_info.table)
    IN  IF join_info.table = Missing
        THEN [errors |-> e1 \o e2, warnings |-> <<WarnJoinException(i)>>]
        ELSE IF join_columns = <<>>
        THEN [errors |-> e1 \o e2,
              warnings |-> <<WarnJoinColumns(i, join_info.table)>>]
        ELSE IF TextSet(join_info.right_col)
                /\ ~InColumns(join_info.right_col, join_columns)
        THEN [errors |-> e1 \o e2
                  \o <<ErrJoinColumn(i, join_info.right_col, join_info.table)>>,
              warnings |-> <<>>]
        ELSE [errors |-> e1 \o e2, warnings |-> <<>>]

RECURSIVE ValidateJoins(_, _, _)
ValidateJoins(cat, joins, i) ==
    IF i > Len(joins) THEN [errors |-> <<>>, warnings |-> <<>>]
    ELSE LET h == ValidateJoin(cat, i, joins[i])
             t == ValidateJoins(cat, joins, i + 1)
         IN  [errors |-> h.errors \o t.errors, warnings |-> h.warnings \o t.warnings]

RECURSIVE ValidateFilters(_, _)
ValidateFilters(main_columns, filters) ==
    IF filters = <<>> THEN <<>>
    ELSE LET col_name == Head(filters).column
         IN  (IF TextSet(col_name) /\ ~InColumns(col_name, main_columns)
              THEN <<WarnFilterColumn(col_name)>> ELSE <<>>)
             \o ValidateFilters(main_columns, Tail(filters))

\* mutant: the main table is checked after the joins
validate_MainTableLast(s, cat) ==
    LET e0 == IF ~NameSet(s.selected_table) THEN <<ErrNoMainTable>> ELSE <<>>
        js == ValidateJoins(cat, s.join_conditions, 1)
        main_columns == get_dynamic_columns(cat, s.selected_table)
    IN  [errors   |-> js.errors \o e0,
         warnings |-> js.warnings \o ValidateFilters(main_columns, s.filter_conditions)]

\* mutant: a filter on a column the main table lacks is reported as an error
validate_FilterIsError(s, cat) ==
    LET e0 == IF ~NameSet(s.selected_table) THEN <<ErrNoMainTable>> ELSE <<>>
        js == ValidateJoins(cat, s.join_conditions, 1)
        main_columns == get_dynamic_columns(cat, s.selected_table)
    IN  [errors   |-> e0 \o js.errors \o ValidateFilters(main_columns, s.filter_conditions),
         warnings |-> js.warnings]

validate_query_before_execution(s, cat) ==
    LET e0 == IF ~NameSet(s.selected_table) THEN <<ErrNoMainTable>> ELSE <<>>
        js == ValidateJoins(cat, s.join_conditions, 1)
        main_columns == get_dynamic_columns(cat, s.selected_table)
    IN  [errors   |-> e0 \o js.errors,
         warnings |-> js.warnings \o ValidateFilters(main_columns, s.filter_conditions)]

\* ---------------------------------------------------------------- compiler
NL == "\n"

\* The filter UI's labels, written in ASCII:
\*   condition types  "select" (値を選択), "range" (範囲指定), "custom" (カスタム条件)
\*   like types       "prefix" (前方一致), "suffix" (後方一致), "substring" (部分一致)
CondTypes == <<"select", "range", "custom">>
LikeTypes == <<"prefix", "suffix", "substring">>

KeyGroupBy    == <<"group_by">>
KeySortColumn == <<"sort_column">>
KeySortOrder  == <<"sort_order">>
KeyLimitRows  == <<"limit_rows">>
AggregationKeys == {KeyGroupBy, KeySortColumn, KeySortOrder, KeyLimitRows}

\* an ordered dict is a sequence of [key, value] with distinct keys
HasKey(d, k) == \E i \in DOMAIN d : d[i].key = k
DictGet(d, k, default) ==
    IF HasKey(d, k) THEN d[CHOOSE i \in DOMAIN d : d[i].key = k].value ELSE default
\* d[k] = v : an existing key keeps its position, a new key is appended
DictSet(d, k, v) ==
    IF HasKey(d, k)
    THEN [i \in DOMAIN d |-> IF d[i].key = k THEN [key |-> k, value |-> v] ELSE d[i]]
    ELSE Append(d, [key |-> k, value |-> v])

\* str.endswith(suffix) and str.replace(old, new) on token sequences
EndsWith(text, tok) == text # <<>> /\ text[Len(text)] = tok
ReplaceTok(text, old, new) ==
    Concat([i \in DOMAIN text |-> IF text[i] = old THEN new ELSE <<text[i]>>])

\* mutant: a quote is escaped with a backslash
EscapeQuotes_Backslash(text) == ReplaceTok(text, "'", <<"\\", "'">>)

\* str(v).replace("'", "''")
EscapeQuotes(text) == ReplaceTok(text, "'", <<"''">>)

\* f"{x}" for a number: an int prints its digits, a whole float prints "n.0"
FormatNum(x) ==
    IF x.ty = "float" THEN <<ToString(x.v), ".0">> ELSE <<ToString(x.v)>>

Fragments(fs) == [frags |-> fs, warned |-> FALSE]
Swallowed     == [frags |-> <<>>, warned |-> TRUE]

\* mutant: the 'max' test is an elif of the 'min' test
NumericBounds_MaxOnlyWithoutMin(col_name, d) ==
    IF "min" \in DOMAIN d /\ d["min"].v # 0
    THEN <<col_name \o <<" >= ">> \o FormatNum(d["min"])>>
    ELSE IF "max" \in DOMAIN d /\ d["max"].v # 0
    THEN <<col_name \o <<" <= ">> \o FormatNum(d["max"])>>
    ELSE <<>>

\* the two numeric comparisons of a '_range' entry: each bound on its own,
\* 0 standing for "not set"
NumericBounds(col_name, d) ==
    LET f3 == IF "min" \in DOMAIN d /\ d["min"].v # 0
              THEN <<col_name \o <<" >= ">> \o FormatNum(d["min"])>> ELSE <<>>
        f4 == IF "max" \in DOMAIN d /\ d["max"].v # 0
              THEN <<col_name \o <<" <= ">> \o FormatNum(d["max"])>> ELSE <<>>
    IN  f3 \o f4

\* the fragments one entry of query_conditions adds to where_conditions
\* (the body of the inner try); warned = the except branch ran (st.warning)
ConditionFragments(key, value) ==
    IF EndsWith(key, "_in")
    THEN LET col_name == ReplaceTok(key, "_in", <<>>)
         IN  IF value.ty = "list" /\ value.v # <<>>
             THEN LET escaped_values == [i \in DOMAIN value.v |-> EscapeQuotes(value.v[i])]
                      values_str == JoinText(escaped_values, <<"', '">>)
                  IN  Fragments(<<col_name \o <<" IN ('">> \o values_str \o <<"')">>>>)
             ELSE Fragments(<<>>)
    ELSE IF EndsWith(key, "_range")
    THEN LET col_name == ReplaceTok(key, "_range", <<>>)
             d == value.v
             f1 == IF "from" \in DOMAIN d /\ Truthy(d["from"])
                   THEN <<col_name \o <<" >= '">> \o d["from"].v \o <<"'">>>> ELSE <<>>
             f2 == IF "to" \in DOMAIN d /\ Truthy(d["to"])
                   THEN <<col_name \o <<" <= '">> \o d["to"].v \o <<"'">>>> ELSE <<>>
         IN  IF value.ty = "dict" THEN Fragments(f1 \o f2 \o NumericBounds(col_name, d))
             ELSE Fragments(<<>>)
    ELSE IF EndsWith(key, "_like")
    THEN LET col_name == ReplaceTok(key, "_like", <<>>)
         IN  IF value.ty = "dict" /\ "value" \in DOMAIN value.v
             THEN IF "type" \notin DOMAIN value.v
                  THEN Swallowed                   \* value['type'] raises KeyError
                  ELSE LET search_value == EscapeQuotes(value.v["value"].v)
                           like_type == value.v["type"].v
                       IN  IF like_type = <<"prefix">>
                           THEN Fragments(<<col_name \o <<" LIKE '">> \o search_value \o <<"%'">>>>)
                           ELSE IF like_type = <<"suffix">>
                           THEN Fragments(<<col_name \o <<" LIKE '%">> \o search_value \o <<"'">>>>)
                           ELSE IF like_type = <<"substring">>
                           THEN Fragments(<<col_name \o <<" LIKE '%">> \o search_value \o <<"%'">>>>)
                           ELSE Fragments(<<>>)
             ELSE Fragments(<<>>)
    ELSE IF EndsWith(key, "_custom")
    THEN IF value.ty = "str" /\ value.v # <<>>
         THEN Fragments(<<<<"(">> \o value.v \o <<")">>>>)
         ELSE Fragments(<<>>)
    ELSE Fragments(<<>>)

\* the loop over query_conditions.items(): where_conditions and the keys
\* whose processing raised and was swallowed
RECURSIVE WhereConditions(_)
WhereConditions(conds) ==
    IF conds = <<>> THEN [frags |-> <<>>, swallowed |-> <<>>]
    ELSE LET key == Head(conds).key
             value == Head(conds).value
             rest == WhereConditions(Tail(conds))
         IN  IF ~Truthy(value) \/ key \in AggregationKeys
             THEN rest
             ELSE LET c == ConditionFragments(key, value)
                  IN  [frags |-> c.frags \o rest.frags,
                       swallowed |-> (IF c.warned THEN <<key>> ELSE <<>>) \o rest.swallowed]

\* the numeric columns of the main table (the list comprehension): the first
\* lookup gives the keys, the lookup made for each key reads the Catalog
\* again (cat2); a key the second lookup no longer holds raises KeyError
NumericLookupFails(s, cat1, cat2) ==
    LET first == get_dynamic_columns(cat1, s.selected_table)
        again == get_dynamic_columns(cat2, s.selected_table)
    IN  \E i \in DOMAIN first : ~InColumns(first[i].name, again)

NumericCols(s, cat1, cat2) ==
    LET first == get_dynamic_columns(cat1, s.selected_table)
        again == get_dynamic_columns(cat2, s.selected_table)
        isnum(i) == ColumnCfg(first[i].name, again) = PyStr(<<"numeric_range">>)
        names == [i \in DOMAIN first |-> IF isnum(i) THEN <<first[i].name>> ELSE <<>>]
    IN  Concat(names)

SumColumns(cols) ==
    [i \in DOMAIN cols |-> <<"SUM(">> \o cols[i] \o <<") as ">> \o cols[i] \o <<"_total">>]

\* mutant: the record count is put first
SelectCols_CountFirst(s, cat1, cat2) ==
    LET group_by_cols == DictGet(s.query_conditions, KeyGroupBy, PyList(<<>>)).v
    IN  << <<"COUNT(*) as record_count">> >> \o group_by_cols
        \o (IF NumericLookupFails(s, cat1, cat2) THEN <<>>
            ELSE SumColumns(NumericCols(s, cat1, cat2)))

SelectCols(s, cat1, cat2) ==
    LET group_by_cols == DictGet(s.query_conditions, KeyGroupBy, PyList(<<>>)).v
    IN  group_by_cols \o << <<"COUNT(*) as record_count">> >>
        \o (IF NumericLookupFails(s, cat1, cat2) THEN <<>>
            ELSE SumColumns(NumericCols(s, cat1, cat2)))

SelectPart(s, cat1, cat2) ==
    IF Truthy(DictGet(s.query_conditions, KeyGroupBy, PyList(<<>>)))
    THEN <<"SELECT ">> \o JoinText(SelectCols(s, cat1, cat2), <<", ">>)
    ELSE <<"SELECT *">>

FromPart(s) ==
    <<"FROM ", s.selected_db, ".", s.selected_schema, ".", s.selected_table>>

\* mutant: the ON line pairs the main table with right_col and the target
\* table with left_col
JoinParts_SwappedColumns(s, join_info) ==
    << <<join_info.type, " ", s.selected_db, ".", s.selected_schema, ".", join_info.table>>,
       <<"  ON ", s.selected_table, ".">> \o join_info.right_col
           \o <<" = ", join_info.table, ".">> \o join_info.left_col >>

\* the two parts one join appends
JoinParts(s, join_info) ==
    << <<join_info.type, " ", s.selected_db, ".", s.selected_schema, ".", join_info.table>>,
       <<"  ON ", s.selected_table, ".">> \o join_info.left_col
           \o <<" = ", join_info.table, ".">> \o join_info.right_col >>

RECURSIVE AllJoinParts(_, _)
AllJoinParts(s, joins) ==
    IF joins = <<>> THEN <<>>
    ELSE JoinParts(s, Head(joins)) \o AllJoinParts(s, Tail(joins))

\* mutant: every fragment gets a WHERE line of its own
WherePart_WherePerFragment(where_conditions) ==
    [i \in DOMAIN where_conditions |-> <<"WHERE ">> \o where_conditions[i]]

WherePart(where_conditions) ==
    IF where_conditions # <<>>
    THEN << <<"WHERE ">> \o JoinText(where_conditions, <<NL, "  AND ">>) >>
    ELSE <<>>

GroupByPart(s) ==
    LET group_by_cols == DictGet(s.query_conditions, KeyGroupBy, PyList(<<>>))
    IN  IF Truthy(group_by_cols)
        THEN << <<"GROUP BY ">> \o JoinText(group_by_cols.v, <<", ">>) >>
        ELSE <<>>

OrderByPart(s) ==
    LET sort_col == DictGet(s.query_conditions, KeySortColumn, PyNone)
        sort_order == DictGet(s.query_conditions, KeySortOrder, PyStr(<<"DESC">>))
    IN  IF Truthy(sort_col)
        THEN << <<"ORDER BY ">> \o sort_col.v \o <<" ">> \o sort_order.v >>
        ELSE <<>>

DefaultLimit == 1000
LimitCeiling == 10000

\* mutant: a limit at or above the ceiling is cut down to the ceiling
LimitPart_CapsAtCeiling(s) ==
    LET limit_val == DictGet(s.query_conditions, KeyLimitRows, PyNum(DefaultLimit))
    IN  IF Truthy(limit_val) /\ limit_val.v < LimitCeiling
        THEN << <<"LIMIT ">> \o FormatNum(limit_val) >>
        ELSE IF Truthy(limit_val)
        THEN << <<"LIMIT ">> \o FormatNum(PyNum(LimitCeiling)) >>
        ELSE <<>>

LimitPart(s) ==
    LET limit_val == DictGet(s.query_conditions, KeyLimitRows, PyNum(DefaultLimit))
    IN  IF Truthy(limit_val) /\ limit_val.v < LimitCeiling
        THEN << <<"LIMIT ">> \o FormatNum(limit_val) >>
        ELSE <<>>

\* mutant: GROUP BY is appended before WHERE
SqlParts_GroupBeforeWhere(s, cat1, cat2) ==
    <<SelectPart(s, cat1, cat2), FromPart(s)>>
    \o AllJoinParts(s, s.join_conditions)
    \o GroupByPart(s)
    \o WherePart(WhereConditions(s.query_conditions).frags)
    \o OrderByPart(s)
    \o LimitPart(s)

\* sql_parts, in the order the code appends them
SqlParts(s, cat1, cat2) ==
    <<SelectPart(s, cat1, cat2), FromPart(s)>>
    \o AllJoinParts(s, s.join_conditions)
    \o WherePart(WhereConditions(s.query_conditions).frags)
    \o GroupByPart(s)
    \o OrderByPart(s)
    \o LimitPart(s)

\* an exception that reaches the outer except: join_info['table'] on a join
\* that has no 'table' key
CompileRaises(s) ==
    \E i \in DOMAIN s.join_conditions : s.join_conditions[i].table = Missing

NoQuery == [ok |-> FALSE, text |-> <<>>, parts |-> <<>>, where_conditions |-> <<>>,
            swallowed |-> <<>>, numeric_failed |-> FALSE]

\* generate_sql_query: ok = FALSE is the None result; text is the returned
\* string; parts / where_conditions are the lists it was joined from;
\* swallowed / numeric_failed record the st.warning calls of the inner excepts
generate_sql_query(s, cat1, cat2) ==
    IF CompileRaises(s) THEN NoQuery
    ELSE [ok |-> TRUE,
          text |-> JoinText(SqlParts(s, cat1, cat2), <<NL>>),
          parts |-> SqlParts(s, cat1, cat2),
          where_conditions |-> WhereConditions(s.query_conditions).frags,
          swallowed |-> WhereConditions(s.query_conditions).swallowed,
          numeric_failed |-> Truthy(DictGet(s.query_conditions, KeyGroupBy, PyList(<<>>)))
                             /\ NumericLookupFails(s, cat1, cat2)]

\* mutant: select_cols is the session's group_by list itself, so the appends
\* of the projection land in query_conditions
session_after_generate_AliasedGroupBy(s, cat1, cat2) ==
    IF ~CompileRaises(s) /\ Truthy(DictGet(s.query_conditions, KeyGroupBy, PyList(<<>>)))
    THEN [s EXCEPT !.query_conditions =
                      DictSet(@, KeyGroupBy, PyList(SelectCols(s, cat1, cat2)))]
    ELSE s

\* st.session_state after generate_sql_query: the function only reads it
\* (select_cols is a new list, group_by_cols + [...]; no key is assigned)
session_after_generate(s, cat1, cat2) == s

\* ---------------------------------------------------------------- execution
\* what the warehouse answers to "run query text": rows, no rows, or an error
RespRows  == "rows"
RespEmpty == "empty"
RespError == "E1"
Responses == {RespRows, RespEmpty, RespError}

\* the value execute_query returns as its DataFrame
RetNone  == "None"
RetRows  == "rows"
RetEmpty == "empty"

\* mutant: the early return on errors is missing
execute_query_IgnoresErrors(s, cat, cat2, resp) ==
    LET v == validate_query_before_execution(s, cat)
        gen == generate_sql_query(s, cat, cat2)
        base == [errors |-> v.errors, warnings |-> v.warnings, compiled |-> FALSE,
                 gen |-> NoQuery, sent |-> FALSE, sent_text |-> <<>>,
                 ret |-> RetNone, last_error |-> s.last_error]
    IN  IF ~gen.ok \/ gen.text = <<>>
        THEN [base EXCEPT !.compiled = TRUE, !.gen = gen]
        ELSE LET sent == [base EXCEPT !.compiled = TRUE, !.gen = gen,
                                      !.sent = TRUE, !.sent_text = gen.text]
             IN  IF resp = RespRows
                 THEN [sent EXCEPT !.ret = RetRows, !.last_error = None]
                 ELSE IF resp = RespEmpty
                 THEN [sent EXCEPT !.ret = RetEmpty]
                 ELSE [sent EXCEPT !.last_error = resp]

\* mutant: an execution that returns no rows clears last_error too
execute_query_ClearsOnEmpty(s, cat, cat2, resp) ==
    LET v == validate_query_before_execution(s, cat)
        gen == generate_sql_query(s, cat, cat2)
        base == [errors |-> v.errors, warnings |-> v.warnings, compiled |-> FALSE,
                 gen |-> NoQuery, sent |-> FALSE, sent_text |-> <<>>,
                 ret |-> RetNone, last_error |-> s.last_error]
    IN  IF v.errors # <<>> THEN base
        ELSE IF ~gen.ok \/ gen.text = <<>>
        THEN [base EXCEPT !.compiled = TRUE, !.gen = gen]
        ELSE LET sent == [base EXCEPT !.compiled = TRUE, !.gen = gen,
                                      !.sent = TRUE, !.sent_text = gen.text]
             IN  IF resp = RespRows
                 THEN [sent EXCEPT !.ret = RetRows, !.last_error = None]
                 ELSE IF resp = RespEmpty
                 THEN [sent EXCEPT !.ret = RetEmpty, !.last_error = None]
                 ELSE [sent EXCEPT !.last_error = resp]

\* execute_query: the validation result, whether generate_sql_query was
\* called on the main path, the text handed to session.sql (sent), the
\* returned value and the last_error the call leaves in the session
execute_query(s, cat, cat2, resp) ==
    LET v == validate_query_before_execution(s, cat)
        gen == generate_sql_query(s, cat, cat2)
        base == [errors |-> v.errors, warnings |-> v.warnings, compiled |-> FALSE,
                 gen |-> NoQuery, sent |-> FALSE, sent_text |-> <<>>,
                 ret |-> RetNone, last_error |-> s.last_error]
    IN  IF v.errors # <<>> THEN base
        ELSE IF ~gen.ok \/ gen.text = <<>>
        THEN [base EXCEPT !.compiled = TRUE, !.gen = gen]
        ELSE LET sent == [base EXCEPT !.compiled = TRUE, !.gen = gen,
                                      !.sent = TRUE, !.sent_text = gen.text]
             IN  IF resp = RespRows
                 THEN [sent EXCEPT !.ret = RetRows, !.last_error = None]
                 ELSE IF resp = RespEmpty
                 THEN [sent EXCEPT !.ret = RetEmpty]
                 ELSE [sent EXCEPT !.last_error = resp]

\* the observable record of one call / one script run
RunRecord(op, r) ==
    [op |-> op, errors |-> r.errors, warnings |-> r.warnings, compiled |-> r.compiled,
     gen |-> r.gen, sent |-> r.sent, sent_text |-> r.sent_text, ret |-> r.ret,
     again |-> NoQuery, catalog_changed |-> FALSE, columns |-> <<>>]

Idle ==
    [op |-> "idle", errors |-> <<>>, warnings |-> <<>>, compiled |-> FALSE,
     gen |-> NoQuery, sent |-> FALSE, sent_text |-> <<>>, ret |-> RetNone,
     again |-> NoQuery, catalog_changed |-> FALSE, columns |-> <<>>]

\* the "execute" button of main(): execute_query, then the result is stored
\* only when a DataFrame came back
StoreResult(s, r) ==
    IF r.ret # RetNone
    THEN [s EXCEPT !.result_data = r.ret, !.query_executed = TRUE,
                   !.last_error = r.last_error]
    ELSE [s EXCEPT !.last_error = r.last_error]

\* ---------------------------------------------------------------- universe
DB == "DB"
SC == "SC"
T1 == "T1"
T2 == "T2"

ColA == <<"A">>
ColN == <<"N">>
ColD == <<"D">>
ColX == <<"X">>          \* a column no table has
ColK == <<"K">>
ColZ == <<"Z">>          \* a column no table has
ColStatus == <<"STATUS">>

RowsT1  == <<Row(ColA, "VARCHAR", TRUE, <<>>), Row(ColN, "NUMBER", TRUE, <<>>)>>
\* T1 after a schema change: A dropped, D added
RowsT1b == <<Row(ColN, "NUMBER", TRUE, <<>>), Row(ColD, "DATE", TRUE, <<>>)>>
RowsT2  == <<Row(ColK, "NUMBER", TRUE, <<>>),
             Row(ColStatus, "VARCHAR", TRUE, << <<"open">>, <<"closed">> >>)>>
\* T2 after a schema change: K dropped
RowsT2b == <<Row(ColStatus, "VARCHAR", TRUE, << <<"open">>, <<"closed">> >>)>>
Unfetchable == <<>>

Catalog(r1, r2) == (T1 :> r1) @@ (T2 :> r2)

\* get_table_schema after its cache entry for `table` expired: the warehouse
\* is asked again and the answer (rows, or [] on failure) is cached
Refetch(cat, wh, table) ==
    IF table \in DOMAIN cat THEN [cat EXCEPT ![table] = wh[table]] ELSE cat

Session(table, joins, filters, conds) ==
    [selected_db |-> DB, selected_schema |-> SC, selected_table |-> table,
     join_conditions |-> joins, filter_conditions |-> filters,
     query_conditions |-> conds, result_data |-> None, query_executed |-> FALSE,
     last_error |-> None, widgets |-> <<>>]

Join(t, ty, l, r) == [table |-> t, type |-> ty, left_col |-> l, right_col |-> r]
Filter(c, ty) == [column |-> c, type |-> ty]
Item(k, v) == [key |-> k, value |-> v]

\* ---------------------------------------------------------------- inputs
\* joins as an imported or saved config can hold them: any field may be empty,
\* the 'table' key may be absent, a column may not exist any more
JoinSpecsV ==
    {Join(T2, "LEFT JOIN", l, r) : l \in {ColA, ColX, <<>>}, r \in {ColK, ColZ, <<>>}}
    \cup {Join(t, "LEFT JOIN", l, r) :
              t \in {"", Missing}, l \in {ColA, <<>>}, r \in {ColK, <<>>}}

FilterSpecsV == {Filter(c, "select") : c \in {ColA, ColX, <<>>}}

\* joins as the join UI builds them
JoinSpecsC ==
    {Join(T2, ty, ColA, ColK) : ty \in {"INNER JOIN", "LEFT JOIN"}}

DateFrom == PyStr(<<"2024-01-01">>)
DateTo   == PyStr(<<"2024-12-31">>)

\* entries of query_conditions as the filter UI writes them, plus a 'like'
\* entry without its 'type' key (a hand-edited config)
FilterItems ==
    { Item(ColA \o <<"_in">>, PyList(<<>>)),
      Item(ColA \o <<"_in">>, PyList(<< <<"x">> >>)),
      Item(ColA \o <<"_in">>, PyList(<< <<"O", "'", "Brien">>, <<"Smith">> >>)),
      Item(ColN \o <<"_range">>, PyDict([min |-> PyNum(0), max |-> PyNum(0)])),
      Item(ColN \o <<"_range">>, PyDict([min |-> PyNum(5), max |-> PyNum(0)])),
      Item(ColN \o <<"_range">>, PyDict([min |-> PyNum(5), max |-> PyNum(9)])),
      Item(ColN \o <<"_range">>, PyDict([min |-> PyNum(0), max |-> PyNum(9)])),
      Item(ColN \o <<"_range">>, PyDict([min |-> PyFloat(0), max |-> PyFloat(7)])),
      Item(ColD \o <<"_range">>, PyDict([from |-> DateFrom, to |-> DateTo])),
      Item(ColD \o <<"_range">>, PyDict([from |-> DateFrom, to |-> PyNone])),
      Item(ColA \o <<"_like">>, PyDict([type |-> PyStr(<<"prefix">>), value |-> PyStr(<<"ab">>)])),
      Item(ColA \o <<"_like">>, PyDict([value |-> PyStr(<<"ab">>)])),
      Item(ColA \o <<"_custom">>, PyStr(<<"A > 1000 OR A IS NULL">>)) }

DistinctKeys(d) == \A i, j \in DOMAIN d : d[i].key = d[j].key => i = j

FilterDicts == {d \in SeqsUpTo(FilterItems, MaxFilters) : DistinctKeys(d)}

\* the four aggregation entries the filter UI always writes last
Aggregation(g, sc, so, lim) ==
    <<Item(KeyGroupBy, PyList(g)), Item(KeySortColumn, sc),
      Item(KeySortOrder, PyStr(<<so>>)), Item(KeyLimitRows, PyNum(lim))>>

Aggregations ==
    {Aggregation(g, sc, so, lim) :
        g \in {<<>>, <<ColA>>, <<ColA, <<T2, ".">> \o ColK>>},
        sc \in {PyNone, PyStr(ColA)},
        so \in {"DESC", "ASC"},
        lim \in {0, DefaultLimit, LimitCeiling - 1, LimitCeiling, LimitCeiling + 1}}
    \cup {<<>>}

DefaultAggregation == Aggregation(<<>>, PyNone, "DESC", DefaultLimit)

\* Validator inputs: every join shape, against every Catalog snapshot
InitJoins ==
    \E table \in {None, T1}, joins \in SeqsUpTo(JoinSpecsV, MaxJoins),
       r1 \in {RowsT1, Unfetchable}, r2 \in {RowsT2, Unfetchable} :
        /\ (table = None => r1 = RowsT1)
        /\ ss = Session(table, joins, <<>>, DefaultAggregation)
        /\ cache = Catalog(r1, r2)
        /\ warehouse = cache

\* Validator inputs: every filter list, against a main table that changed
InitFilters ==
    \E table \in {None, T1}, filters \in SeqsUpTo(FilterSpecsV, MaxFilters),
       joins \in SeqsUpTo({Join(T2, "LEFT JOIN", ColA, ColK)}, 1),
       r1 \in {RowsT1, RowsT1b, Unfetchable} :
        /\ ss = Session(table, joins, filters, DefaultAggregation)
        /\ cache = Catalog(r1, RowsT2)
        /\ warehouse = cache

\* Compiler inputs: every filter dict
InitWhere ==
    \E conds \in FilterDicts, agg \in {<<>>, DefaultAggregation},
       joins \in SeqsUpTo({Join(T2, "LEFT JOIN", ColA, ColK)}, 1) :
        /\ ss = Session(T1, joins, <<>>, conds \o agg)
        /\ cache = Catalog(RowsT1, RowsT2)
        /\ warehouse = cache

\* Compiler inputs: every aggregation and join list, with a Catalog whose
\* cached main table may differ from the warehouse's
InitAggregation ==
    \E agg \in Aggregations, conds \in SeqsUpTo({Item(ColA \o <<"_in">>, PyList(<< <<"x">> >>))}, 1),
       joins \in SeqsUpTo(JoinSpecsC, MaxJoins) \cup {<<Join(Missing, "LEFT JOIN", ColA, ColK)>>},
       w1 \in {RowsT1, RowsT1b, Unfetchable} :
        /\ ss = Session(T1, joins, <<>>, conds \o agg)
        /\ cache = Catalog(RowsT1, RowsT2)
        /\ warehouse = Catalog(w1, RowsT2)

\* declared types as information_schema.columns may report them: recognised
\* ones, types of no recognised set, and a recognised name in lower case
TypeStrings ==
    {"VARCHAR", "TEXT", "DATE", "TIMESTAMP_NTZ", "NUMBER", "FLOAT",
     "BOOLEAN", "TIMESTAMP_TZ", "VARIANT", "varchar"}

\* Catalog inputs: a main table of two columns of every declared type, the
\* second one named like a category column, its probe succeeding or not
InitClassify ==
    \E t1 \in TypeStrings, t2 \in TypeStrings, ok \in BOOLEAN :
        /\ ss = Session(T1, <<>>, <<>>, DefaultAggregation)
        /\ cache = Catalog(<<Row(ColA, t1, TRUE, <<>>),
                             Row(ColStatus, t2, ok, << <<"open">>, <<"closed">> >>)>>, RowsT2)
        /\ warehouse = cache

InitFn ==
    /\ run = Idle
    /\ (InitJoins \/ InitFilters \/ InitWhere \/ InitAggregation \/ InitClassify)

\* a direct call of validate_query_before_execution
FnValidate ==
    /\ run.op = "idle"
    /\ LET v == validate_query_before_execution(ss, cache)
       IN  run' = [Idle EXCEPT !.op = "validate", !.errors = v.errors,
                               !.warnings = v.warnings]
    /\ UNCHANGED <<ss, cache, warehouse>>

\* a direct call of generate_sql_query; expire = the cache entry of the main
\* table runs out after the call's first Catalog lookup
FnGenerate ==
    /\ run.op = "idle"
    /\ \E expire \in BOOLEAN :
        LET cat2 == IF expire THEN Refetch(cache, warehouse, ss.selected_table) ELSE cache
        IN  /\ run' = [Idle EXCEPT !.op = "generate", !.compiled = TRUE,
                                   !.gen = generate_sql_query(ss, cache, cat2),
                                   !.catalog_changed = (cat2 # cache)]
            /\ ss' = session_after_generate(ss, cache, cat2)
            /\ cache' = cat2
    /\ UNCHANGED warehouse

\* a second direct call of generate_sql_query, right after the first
FnGenerateAgain ==
    /\ run.op = "generate"
    /\ \E expire \in BOOLEAN :
        LET cat2 == IF expire THEN Refetch(cache, warehouse, ss.selected_table) ELSE cache
        IN  /\ run' = [run EXCEPT !.op = "generate2",
                                  !.again = generate_sql_query(ss, cache, cat2),
                                  !.catalog_changed = @ \/ cat2 # cache]
            /\ ss' = session_after_generate(ss, cache, cat2)
            /\ cache' = cat2
    /\ UNCHANGED warehouse

\* a direct call of get_dynamic_columns on the main table
FnDescribe ==
    /\ run.op = "idle"
    /\ run' = [Idle EXCEPT !.op = "describe",
                           !.columns = get_dynamic_columns(cache, ss.selected_table)]
    /\ UNCHANGED <<ss, cache, warehouse>>

\* the execute button of main(): enabled only with a main table selected
FnExecute ==
    /\ run.op = "idle"
    /\ NameSet(ss.selected_table)
    /\ \E resp \in Responses, expire \in BOOLEAN :
        LET cat2 == IF expire THEN Refetch(cache, warehouse, ss.selected_table) ELSE cache
            r == execute_query(ss, cache, cat2, resp)
        IN  /\ run' = RunRecord("execute", r)
            /\ ss' = StoreResult(IF r.compiled THEN session_after_generate(ss, cache, cat2)
                                  ELSE ss, r)
            /\ cache' = IF r.compiled THEN cat2 ELSE cache
    /\ UNCHANGED warehouse

NextFn == FnValidate \/ FnGenerate \/ FnGenerateAgain \/ FnDescribe \/ FnExecute

SpecFn == InitFn /\ [][NextFn]_vars

\* ---------------------------------------------------------------- filter panel
\* st.date_input without a value returns today's date
DateToday == PyDate(<<"2024-06-01">>)

\* the widget values of filter position i, held in the session under the keys
\* condition_type_{i}, select_{i}, input_{i}, min_{i}, max_{i}, range_type_{i},
\* range_value_{i} and custom_{i}
WidgetDefault(condition_type) ==
    [condition_type |-> condition_type, select |-> <<>>, input |-> <<>>,
     min |-> 0, max |-> 0, range_type |-> LikeTypes[1], range_value |-> <<>>,
     custom |-> <<>>]

\* the widget a position shows when no value is stored under its key: the
\* condition type defaults to the filter's own type
WidgetAt(widgets, filters, i) ==
    IF i \in DOMAIN widgets THEN widgets[i] ELSE WidgetDefault(filters[i].type)

\* which input widgets the loop body renders for a condition type and a
\* column config
WidgetFamily(condition_type, col_config) ==
    IF condition_type = "select"
    THEN IF col_config.ty = "list" /\ col_config.v # <<>> THEN "select" ELSE "input"
    ELSE IF condition_type = "range"
    THEN IF col_config = PyStr(<<"date_range">>) THEN "date"
         ELSE IF col_config = PyStr(<<"numeric_range">>) THEN "numeric"
         ELSE "like"
    ELSE "custom"

\* a widget that a completed script run did not render loses its value
KeepRendered(w, family) ==
    [WidgetDefault(w.condition_type) EXCEPT
        !.select = IF family = "select" THEN w.select ELSE @,
        !.input = IF family = "input" THEN w.input ELSE @,
        !.min = IF family = "numeric" THEN w.min ELSE @,
        !.max = IF family = "numeric" THEN w.max ELSE @,
        !.range_type = IF family = "like" THEN w.range_type ELSE @,
        !.range_value = IF family = "like" THEN w.range_value ELSE @,
        !.custom = IF family = "custom" THEN w.custom ELSE @]

\* str.split(sep)
RECURSIVE SplitOn(_, _)
SplitOn(text, sep) ==
    IF \A i \in DOMAIN text : text[i] # sep THEN <<text>>
    ELSE LET k == CHOOSE i \in DOMAIN text :
                      text[i] = sep /\ \A j \in 1..(i - 1) : text[j] # sep
         IN  <<SubSeq(text, 1, k - 1)>> \o SplitOn(SubSeq(text, k + 1, Len(text)), sep)

\* str.strip()
RECURSIVE Strip(_)
Strip(text) ==
    IF text # <<>> /\ Head(text) = " " THEN Strip(Tail(text))
    ELSE IF text # <<>> /\ text[Len(text)] = " "
    THEN Strip(SubSeq(text, 1, Len(text) - 1))
    ELSE text

\* [v.strip() for v in input_values.split(",") if v.strip()]
ValuesList(input_values) ==
    LET pieces == SplitOn(input_values, ",")
    IN  SelectSeq([i \in DOMAIN pieces |-> Strip(pieces[i])], LAMBDA v : v # <<>>)

ColumnConfigOf(col_name, dynamic_columns) ==
    IF InColumns(col_name, dynamic_columns)
    THEN ColumnCfg(col_name, dynamic_columns)
    ELSE PyList(<<>>)

\* the entry (none, or one) the loop body writes into `conditions` for one
\* filter; the key is built from the column name and a suffix
FilterEntry(condition, w, dynamic_columns) ==
    LET col_name == condition.column
        family == WidgetFamily(w.condition_type, ColumnConfigOf(col_name, dynamic_columns))
    IN  CASE family = "select" ->
                IF w.select # <<>>
                THEN <<Item(col_name \o <<"_in">>, PyList(w.select))>> ELSE <<>>
          [] family = "input" ->
                IF w.input # <<>>
                THEN <<Item(col_name \o <<"_in">>, PyList(ValuesList(w.input)))>> ELSE <<>>
          [] family = "date" ->
                <<Item(col_name \o <<"_range">>,
                       PyDict([from |-> DateToday, to |-> DateToday]))>>
          [] family = "numeric" ->
                IF w.min # 0 \/ w.max # 0
                THEN <<Item(col_name \o <<"_range">>,
                            PyDict([min |-> PyFloat(w.min), max |-> PyFloat(w.max)]))>>
                ELSE <<>>
          [] family = "like" ->
                IF w.range_value # <<>>
                THEN <<Item(col_name \o <<"_like">>,
                            PyDict([type |-> PyStr(<<w.range_type>>),
                                    value |-> PyStr(w.range_value)]))>>
                ELSE <<>>
          [] OTHER ->
                IF w.custom # <<>>
                THEN <<Item(col_name \o <<"_custom">>, PyStr(w.custom))>> ELSE <<>>

\* conditions[k] = v for each item in turn
RECURSIVE SetItems(_, _)
SetItems(d, items) ==
    IF items = <<>> THEN d
    ELSE SetItems(DictSet(d, Head(items).key, Head(items).value), Tail(items))

\* the loop over filter_conditions from position i on
RECURSIVE LoopFilters(_, _, _, _, _)
LoopFilters(conditions, filters, widgets, dynamic_columns, i) ==
    IF i > Len(filters) THEN conditions
    ELSE LoopFilters(
            SetItems(conditions,
                     FilterEntry(filters[i], WidgetAt(widgets, filters, i), dynamic_columns)),
            filters, widgets, dynamic_columns, i + 1)

\* render_dynamic_filters on a script run that completes: query_conditions is
\* rebuilt from filter_conditions and the widget values, unless the function
\* returns before its last line
render_dynamic_filters(s, cat) ==
    LET dynamic_columns == get_dynamic_columns(cat, s.selected_table)
    IN  IF ~NameSet(s.selected_table) \/ dynamic_columns = <<>>
        THEN [s EXCEPT !.widgets = <<>>]
        ELSE [s EXCEPT
                !.query_conditions =
                    SetItems(LoopFilters(<<>>, s.filter_conditions, s.widgets,
                                         dynamic_columns, 1),
                             DefaultAggregation),
                !.widgets =
                    [i \in DOMAIN s.filter_conditions |->
                        LET w == WidgetAt(s.widgets, s.filter_conditions, i)
                        IN  KeepRendered(w,
                                WidgetFamily(w.condition_type,
                                    ColumnConfigOf(s.filter_conditions[i].column,
                                                   dynamic_columns)))]]

\* ---------------------------------------------------------------- join panel
\* snowflake_metadata[db]["schemas"][schema]: the tables the sidebar offers
SchemaTables == <<T1, T2>>

JoinTypeOptions == <<"INNER JOIN", "LEFT JOIN", "RIGHT JOIN", "FULL OUTER JOIN">>

InList(x, list) == \E i \in DOMAIN list : list[i] = x

\* list(get_dynamic_columns(...).keys())
ColumnNames(columns) == [i \in DOMAIN columns |-> columns[i].name]

\* st.selectbox(options, index = position of `current`, or 0)
SelectboxValue(options, current) ==
    IF InList(current, options) THEN current ELSE options[1]

\* the update() of one existing join: both selectboxes are shown only when
\* both column lists are non-empty, and a column that is not offered is
\* replaced by the first option; an exception leaves the join as it is
UpdateJoin(s, cat, join_info) ==
    IF join_info.table = Missing \/ ~InList(join_info.type, JoinTypeOptions)
    THEN join_info
    ELSE LET left_table_cols == ColumnNames(get_dynamic_columns(cat, s.selected_table))
             right_table_cols == ColumnNames(get_dynamic_columns(cat, join_info.table))
         IN  IF left_table_cols = <<>> \/ right_table_cols = <<>>
             THEN join_info
             ELSE [join_info EXCEPT
                     !.left_col = SelectboxValue(left_table_cols, @),
                     !.right_col = SelectboxValue(right_table_cols, @)]

AvailableTables(s) == SelectSeq(SchemaTables, LAMBDA t : t # s.selected_table)

render_join_config(s, cat) ==
    IF ~NameSet(s.selected_table) \/ AvailableTables(s) = <<>>
    THEN s
    ELSE [s EXCEPT !.join_conditions =
                       [i \in DOMAIN @ |-> UpdateJoin(s, cat, @[i])]]

\* ---------------------------------------------------------------- script run
\* the three data-source selectboxes of main(): the stored selection when it
\* is among the options, else the first option
DataSource(s) ==
    [s EXCEPT !.selected_db = DB, !.selected_schema = SC,
              !.selected_table = SelectboxValue(SchemaTables, @)]

\* one script run of main() that completes without a button being pressed
RenderPage(s, cat) ==
    render_join_config(render_dynamic_filters(DataSource(s), cat), cat)

\* the states of the warehouse's two tables a session lives through
CatalogSnapshots ==
    {Catalog(RowsT1, RowsT2), Catalog(RowsT1b, RowsT2),
     Catalog(Unfetchable, RowsT2), Catalog(Unfetchable, RowsT2b)}

\* init_session_state on an empty session
InitSession ==
    [Session(None, <<>>, <<>>, <<>>) EXCEPT !.selected_db = None,
                                           !.selected_schema = None]

\* the saved config the config table holds
SavedConfig ==
    [db |-> DB, schema |-> SC, table |-> T1,
     conditions |-> <<Item(ColA \o <<"_in">>, PyList(<< <<"x">> >>))>> \o DefaultAggregation,
     join_conditions |-> <<>>,
     filter_conditions |-> <<Filter(ColA, "select")>>]

load_saved_config(s, config) ==
    [s EXCEPT !.selected_db = config.db, !.selected_schema = config.schema,
              !.selected_table = config.table,
              !.query_conditions = config.conditions,
              !.join_conditions = config.join_conditions,
              !.filter_conditions = config.filter_conditions,
              !.last_error = None]

\* the keys of st.session_state behind the fields of the session record, each
\* split where a prefix test of the reset button can end
SessionKey ==
    [selected_db |-> <<"selected_", "db">>,
     selected_schema |-> <<"selected_", "schema">>,
     selected_table |-> <<"selected_", "table">>,
     join_conditions |-> <<"join_", "conditions">>,
     filter_conditions |-> <<"filter_", "conditions">>,
     query_conditions |-> <<"query_", "conditions">>,
     result_data |-> <<"result_data">>,
     query_executed |-> <<"query_executed">>,
     last_error |-> <<"last_error">>,
     saved_configs |-> <<"saved_", "configs">>,
     persistent_configs_loaded |-> <<"persistent_", "configs_loaded">>,
     confirm_delete |-> <<"confirm_", "delete_", "{config_name}">>,
     confirm_delete_all |-> <<"confirm_", "delete_all">>,
     widgets |-> <<"input_", "{i}">>]

\* mutant: the reset button also deletes the keys that start with 'saved_'
ResetPrefixes_WithSaved ==
    {"selected_", "query_", "result_data", "query_executed", "join_", "filter_",
     "last_error", "saved_"}

\* key.startswith((...)) of the reset button
ResetPrefixes ==
    {"selected_", "query_", "result_data", "query_executed", "join_", "filter_",
     "last_error"}

\* the defaults init_session_state gives to the keys that are missing
SessionDefaults ==
    [selected_db |-> None, selected_schema |-> None, selected_table |-> None,
     join_conditions |-> <<>>, filter_conditions |-> <<>>,
     query_conditions |-> <<>>, result_data |-> None, query_executed |-> FALSE,
     last_error |-> None, saved_configs |-> <<>>,
     persistent_configs_loaded |-> FALSE]

\* the reset button: the keys with a listed prefix are deleted and
\* initialised again; every other key (the filter widgets' keys among them)
\* keeps its value
ResetSession(s) ==
    [k \in DOMAIN s |->
        IF k \in DOMAIN SessionKey /\ SessionKey[k][1] \in ResetPrefixes
        THEN SessionDefaults[k] ELSE s[k]]

\* the values a user types into the widgets of one filter
InputTexts == {<<"x", ",", " ", "y">>}
CustomText == <<"N > 1000 OR N IS NULL">>

SetWidget(w, family, v) ==
    CASE family = "input"   -> [w EXCEPT !.input = v]
      [] family = "numeric" -> [w EXCEPT !.min = 5]
      [] family = "like"    -> [w EXCEPT !.range_value = <<"ab">>]
      [] family = "custom"  -> [w EXCEPT !.custom = CustomText]
      [] OTHER -> w

\* a script run in which execute_query was not called
PageRun == [Idle EXCEPT !.op = "page"]
PanelShown == NameSet(ss.selected_table) /\ get_dynamic_columns(cache, ss.selected_table) # <<>>

\* ---------------------------------------------------------------- session
\* Each action is one user event with the script runs it causes: the run in
\* which the pressed button returns True and, after st.rerun(), the run that
\* renders the page again.  The session starts with its saved configs read
\* from the config table.
Init ==
    /\ ss = InitSession @@ [saved_configs |-> <<Item("cfg1", SavedConfig)>>,
                            persistent_configs_loaded |-> TRUE]
    /\ cache = Catalog(RowsT1, RowsT2)
    /\ warehouse = cache
    /\ run = Idle

PageShown == run.op # "idle"

\* the page is loaded, or re-run after the Catalog changed
Rerun ==
    /\ ~PageShown \/ RenderPage(ss, cache) # ss
    /\ ss' = RenderPage(ss, cache)
    /\ run' = PageRun
    /\ UNCHANGED <<cache, warehouse>>

\* "add condition" for any offered column, the type selectbox left at its
\* first option: append {column, type}, st.rerun()
AddFilter ==
    /\ PanelShown
    /\ Len(ss.filter_conditions) < MaxFilters
    /\ \E k \in DOMAIN get_dynamic_columns(cache, ss.selected_table) :
        LET selected_column == get_dynamic_columns(cache, ss.selected_table)[k].name
        IN  ss' = RenderPage([ss EXCEPT !.filter_conditions =
                                 Append(@, Filter(selected_column, CondTypes[1]))], cache)
    /\ run' = PageRun
    /\ UNCHANGED <<cache, warehouse>>

\* the user types a value into the input widget position i shows
SetFilterValue ==
    /\ PanelShown
    /\ \E i \in DOMAIN ss.filter_conditions, v \in InputTexts :
        LET w == WidgetAt(ss.widgets, ss.filter_conditions, i)
            family == WidgetFamily(w.condition_type,
                          ColumnConfigOf(ss.filter_conditions[i].column,
                                         get_dynamic_columns(cache, ss.selected_table)))
            shown == [j \in DOMAIN ss.filter_conditions |->
                         WidgetAt(ss.widgets, ss.filter_conditions, j)]
        IN  /\ SetWidget(w, family, v) # w
            /\ ss' = RenderPage([ss EXCEPT !.widgets =
                                    [shown EXCEPT ![i] = SetWidget(w, family, v)]], cache)
    /\ run' = PageRun
    /\ UNCHANGED <<cache, warehouse>>

\* "delete condition" of position i: filter_conditions.pop(i), st.rerun()
RemoveFilter ==
    /\ PanelShown
    /\ \E i \in DOMAIN ss.filter_conditions :
        ss' = RenderPage([ss EXCEPT !.filter_conditions =
                             SubSeq(@, 1, i - 1) \o SubSeq(@, i + 1, Len(@))], cache)
    /\ run' = PageRun
    /\ UNCHANGED <<cache, warehouse>>

\* "add JOIN" with the selectboxes left at their first options: offered only
\* when both column lists could be fetched
AddJoin ==
    /\ NameSet(ss.selected_table)
    /\ AvailableTables(ss) # <<>>
    /\ Len(ss.join_conditions) < MaxSessionJoins
    /\ LET join_table == AvailableTables(ss)[1]
           left_table_cols == ColumnNames(get_dynamic_columns(cache, ss.selected_table))
           right_table_cols == ColumnNames(get_dynamic_columns(cache, join_table))
       IN  /\ left_table_cols # <<>>
           /\ right_table_cols # <<>>
           /\ ss' = RenderPage([ss EXCEPT !.join_conditions =
                         Append(@, Join(join_table, JoinTypeOptions[1],
                                        left_table_cols[1], right_table_cols[1]))], cache)
    /\ run' = PageRun
    /\ UNCHANGED <<cache, warehouse>>

\* "delete JOIN" of position i: join_conditions.pop(i), st.rerun()
RemoveJoin ==
    /\ NameSet(ss.selected_table)
    /\ AvailableTables(ss) # <<>>
    /\ \E i \in DOMAIN ss.join_conditions :
        ss' = RenderPage([ss EXCEPT !.join_conditions =
                             SubSeq(@, 1, i - 1) \o SubSeq(@, i + 1, Len(@))], cache)
    /\ run' = PageRun
    /\ UNCHANGED <<cache, warehouse>>

\* the execute button: the page is rendered, execute_query runs, a DataFrame
\* is stored and the script re-run; without a DataFrame the run just ends
Execute ==
    /\ NameSet(ss.selected_table)
    /\ \E resp \in Responses :
        LET s == RenderPage(ss, cache)
            r == execute_query(s, cache, cache, resp)
            stored == StoreResult(IF r.compiled THEN session_after_generate(s, cache, cache)
                                  ELSE s, r)
        IN  /\ ss' = IF r.ret # RetNone THEN RenderPage(stored, cache) ELSE stored
            /\ run' = RunRecord("execute", r)
    /\ UNCHANGED <<cache, warehouse>>

\* the "clear error" button, shown while last_error is set
DismissError ==
    /\ PageShown
    /\ ss.last_error # None
    /\ ss' = RenderPage([ss EXCEPT !.last_error = None], cache)
    /\ run' = PageRun
    /\ UNCHANGED <<cache, warehouse>>

\* the load button of a saved config
LoadConfig ==
    /\ PageShown
    /\ ss' = RenderPage(load_saved_config(ss, SavedConfig), cache)
    /\ run' = PageRun
    /\ UNCHANGED <<cache, warehouse>>

\* the reset button
Reset ==
    /\ PageShown
    /\ ss' = RenderPage(ResetSession(ss), cache)
    /\ run' = [PageRun EXCEPT !.op = "reset"]
    /\ UNCHANGED <<cache, warehouse>>

\* the tables change in the warehouse (a column dropped, one added, the main
\* table unreadable) and the Catalog entries are fetched anew
SchemaChange ==
    /\ \E snapshot \in CatalogSnapshots :
        /\ snapshot # warehouse
        /\ warehouse' = snapshot
        /\ cache' = Refetch(Refetch(cache, warehouse', T1), warehouse', T2)
    /\ UNCHANGED <<ss, run>>

Next ==
    \/ Rerun \/ AddFilter \/ SetFilterValue \/ RemoveFilter
    \/ AddJoin \/ RemoveJoin \/ Execute \/ DismissError
    \/ LoadConfig \/ Reset \/ SchemaChange

Spec == Init /\ [][Next]_vars

\* ================================================================ catalog cache
\* The Catalog functions behind @st.cache_data(ttl=3600) and the "reload
\* settings" button of the saved-config panel.  In SpecCat the warehouse is a
\* record [tree, down, columns, configs]: its databases, schemas and tables,
\* the SHOW requests that fail, the columns of its tables (Unfetchable: the
\* column query fails) and the active rows of the config table; the cache is
\* [metadata, schema], each entry <<>> (no entry) or <<value>>.
DB2 == "DB2"
SC2 == "SC2"

\* a SHOW request: <<>> is SHOW DATABASES, <<db>> is SHOW SCHEMAS IN DATABASE
\* db, <<db, sc>> is SHOW TABLES IN SCHEMA db.sc
ShowDatabases == <<>>

Tree(tables_sc, tables_sc2) ==
    [dbs |-> <<DB, DB2>>,
     schemas |-> (DB :> <<SC, SC2>>) @@ (DB2 :> <<SC>>),
     tables |-> (<<DB, SC>> :> tables_sc) @@ (<<DB, SC2>> :> tables_sc2)
                @@ (<<DB2, SC>> :> <<T2>>)]

Warehouses ==
    {[tree |-> Tree(a, b), down |-> d, columns |-> Catalog(r1, RowsT2),
      configs |-> <<"cfg1">>] :
        a \in {<<T1, T2>>, <<T1>>}, b \in {<<T2>>, <<>>},
        d \in {{}, {ShowDatabases}, {<<DB2>>}, {<<DB, SC2>>}},
        r1 \in {RowsT1, RowsT1b, Unfetchable}}

\* get_snowflake_metadata: database -> schema -> table names, in SHOW order;
\* a failing SHOW SCHEMAS / SHOW TABLES skips that database / schema, a
\* schema without tables and a database without listed schemas are left out,
\* a failing SHOW DATABASES gives {}.  No column is fetched here.
get_snowflake_metadata(wh) ==
    LET schema_entry(db, sc) ==
            IF <<db, sc>> \in wh.down \/ wh.tree.tables[<<db, sc>>] = <<>> THEN <<>>
            ELSE << [name |-> sc, tables |-> wh.tree.tables[<<db, sc>>]] >>
        schemas_of(db) ==
            Concat([i \in DOMAIN wh.tree.schemas[db] |->
                        schema_entry(db, wh.tree.schemas[db][i])])
        db_entry(db) ==
            IF <<db>> \in wh.down \/ schemas_of(db) = <<>> THEN <<>>
            ELSE << [name |-> db, schemas |-> schemas_of(db)] >>
    IN  IF ShowDatabases \in wh.down THEN <<>>
        ELSE Concat([i \in DOMAIN wh.tree.dbs |-> db_entry(wh.tree.dbs[i])])

EmptyCache == [metadata |-> <<>>, schema |-> (T1 :> <<>>) @@ (T2 :> <<>>)]

\* one script run of main() as far as the Catalog goes: get_snowflake_metadata
\* through its cache, st.stop() on an empty result, else the columns of the
\* selected table through get_table_schema's cache (a failed fetch is cached
\* as []); queried = the functions whose body ran
script_run(op, c, wh, table) ==
    LET listing == IF c.metadata # <<>> THEN c.metadata[1] ELSE get_snowflake_metadata(wh)
        stopped == listing = <<>>
        rows == IF c.schema[table] # <<>> THEN c.schema[table][1] ELSE wh.columns[table]
    IN  [run |-> [op |-> op, listing |-> listing,
                  columns |-> IF stopped THEN <<>> ELSE rows,
                  queried |-> (IF c.metadata = <<>> THEN {"metadata"} ELSE {})
                              \cup (IF ~stopped /\ c.schema[table] = <<>>
                                    THEN {"schema"} ELSE {})],
         cache |-> [metadata |-> <<listing>>,
                    schema |-> IF stopped THEN c.schema
                               ELSE [c.schema EXCEPT ![table] = <<rows>>]]]

CatIdle == [op |-> "idle", listing |-> <<>>, columns |-> <<>>, queried |-> {}]

\* load_persistent_configs: the active rows of the config table replace
\* saved_configs when there are any
load_persistent_configs(s, wh) ==
    [s EXCEPT !.persistent_configs_loaded = TRUE,
              !.saved_configs = IF wh.configs # <<>> THEN wh.configs ELSE @]

\* force_reload_configs: the two session keys are reset and the config table
\* is read again; no cache of the Catalog functions is touched
force_reload_configs(s, wh) ==
    load_persistent_configs([s EXCEPT !.persistent_configs_loaded = FALSE,
                                      !.saved_configs = <<>>], wh)

InitCat ==
    /\ warehouse \in Warehouses
    /\ cache = EmptyCache
    /\ ss = [selected_table |-> T1, saved_configs |-> <<>>,
             persistent_configs_loaded |-> FALSE]
    /\ run = CatIdle

\* the page is loaded or re-run; a run that gets past the metadata check
\* loads the saved configs once
CatRerun ==
    /\ LET r == script_run("page", cache, warehouse, ss.selected_table)
       IN  /\ run' = r.run
           /\ cache' = r.cache
           /\ ss' = IF r.run.listing # <<>> /\ ~ss.persistent_configs_loaded
                    THEN load_persistent_configs(ss, warehouse) ELSE ss
    /\ UNCHANGED warehouse

\* the "reload settings" button of a rendered page: force_reload_configs(),
\* st.rerun()
ReloadConfigs ==
    /\ run.op # "idle"
    /\ run.listing # <<>>
    /\ ss' = force_reload_configs(ss, warehouse)
    /\ LET r == script_run("reload", cache, warehouse, ss.selected_table)
       IN  run' = r.run /\ cache' = r.cache
    /\ UNCHANGED warehouse

\* an hour passes: every cache entry is past its ttl
CatExpire ==
    /\ cache # EmptyCache
    /\ cache' = EmptyCache
    /\ run' = CatIdle
    /\ UNCHANGED <<ss, warehouse>>

\* tables, columns or permissions change in the warehouse
WarehouseChange ==
    /\ warehouse' \in Warehouses \ {warehouse}
    /\ run' = CatIdle
    /\ UNCHANGED <<ss, cache>>

NextCat == CatRerun \/ ReloadConfigs \/ CatExpire \/ WarehouseChange

SpecCat == InitCat /\ [][NextCat]_vars

\* ================================================================ saved configs
\* The config table SQL_TOOL_USER_CONFIGS and the saved-config panel.  In
\* SpecCfg the warehouse is [rows]: the rows of the config table, oldest
\* updated_at first; the cache is the Catalog; the session carries, next to
\* the QueryState, saved_configs (an ordered dict name -> config),
\* persistent_configs_loaded, the confirm flags of the delete buttons and
\* `alias`: the name of the saved config whose join_conditions and
\* filter_conditions lists are the very list objects the session holds.
MaxConfigRows == 4

UserContext == "u1"     \* get_user_context() of the session's user and role

ConfigRow(name, user, data, active) ==
    [config_name |-> name, user_context |-> user, config_data |-> data,
     is_active |-> active]

\* json.dumps raises TypeError on a value it has no encoding for (a date)
RECURSIVE Serializable(_)
Serializable(x) ==
    CASE x.ty = "date" -> FALSE
      [] x.ty = "dict" -> \A k \in DOMAIN x.v : Serializable(x.v[k])
      [] OTHER -> TRUE

\* the JSON text json.dumps writes for a value: null, a string, a number
\* with or without a fraction part, an array, an object
RECURSIVE JsonValue(_)
JsonValue(x) ==
    CASE x.ty = "none"  -> [j |-> "null", v |-> <<>>]
      [] x.ty = "str"   -> [j |-> "string", v |-> x.v]
      [] x.ty = "num"   -> [j |-> "integer", v |-> x.v]
      [] x.ty = "float" -> [j |-> "real", v |-> x.v]
      [] x.ty = "list"  -> [j |-> "array",
                            v |-> [i \in DOMAIN x.v |-> [j |-> "string", v |-> x.v[i]]]]
      [] x.ty = "dict"  -> [j |-> "object",
                            v |-> [k \in DOMAIN x.v |-> JsonValue(x.v[k])]]

\* the value json.loads builds from a JSON text
RECURSIVE PyValue(_)
PyValue(doc) ==
    CASE doc.j = "null"    -> PyNone
      [] doc.j = "string"  -> PyStr(doc.v)
      [] doc.j = "integer" -> PyNum(doc.v)
      [] doc.j = "real"    -> PyFloat(doc.v)
      [] doc.j = "array"   -> PyList([i \in DOMAIN doc.v |-> doc.v[i].v])
      [] doc.j = "object"  -> PyDict([k \in DOMAIN doc.v |-> PyValue(doc.v[k])])

\* json.dumps(config_data) and its reading back in load_persistent_configs;
\* the names and the join and filter dicts hold strings only
JsonRaises(config) ==
    \E i \in DOMAIN config.conditions : ~Serializable(config.conditions[i].value)
json_dumps(config) ==
    [config EXCEPT !.conditions =
        [i \in DOMAIN @ |-> Item(@[i].key, JsonValue(@[i].value))]]
json_loads(doc) ==
    [doc EXCEPT !.conditions =
        [i \in DOMAIN @ |-> Item(@[i].key, PyValue(@[i].value))]]

\* the UPDATE ... SET is_active = FALSE, updated_at = CURRENT_TIMESTAMP() of
\* save_config_to_table, delete_config_from_table (one name) and
\* delete_all_configs (every name of the user)
Deactivate(rows, user, names) ==
    LET hit(r) == r.user_context = user /\ r.config_name \in names
    IN  SelectSeq(rows, LAMBDA r : ~hit(r))
        \o [i \in DOMAIN SelectSeq(rows, hit) |->
               [SelectSeq(rows, hit)[i] EXCEPT !.is_active = FALSE]]

\* what the warehouse does with the statements of one save: the table is
\* there or not, the UPDATE raises or not, both INSERT forms raise or not
SaveOutcome(e, u, i) == [table_exists |-> e, update_raises |-> u, insert_raises |-> i]
SaveOutcomes ==
    {SaveOutcome(TRUE, FALSE, FALSE), SaveOutcome(FALSE, FALSE, FALSE),
     SaveOutcome(TRUE, TRUE, FALSE), SaveOutcome(TRUE, FALSE, TRUE)}

\* save_config_to_table: [ret, rows]
save_config_to_table(rows, user, config_name, config_data, outcome) ==
    IF ~outcome.table_exists THEN [ret |-> FALSE, rows |-> rows]
    ELSE LET deactivated == IF outcome.update_raises THEN rows
                            ELSE Deactivate(rows, user, {config_name})
         IN  IF JsonRaises(config_data) \/ outcome.insert_raises
             THEN [ret |-> FALSE, rows |-> deactivated]
             ELSE [ret |-> TRUE,
                   rows |-> Append(deactivated,
                                   ConfigRow(config_name, user,
                                             json_dumps(config_data), TRUE))]

\* delete_config_from_table: [ret, rows]
delete_config_from_table(rows, user, config_name, raises) ==
    IF raises THEN [ret |-> FALSE, rows |-> rows]
    ELSE [ret |-> TRUE, rows |-> Deactivate(rows, user, {config_name})]

\* the rows load_persistent_configs reads (active, of the user, newest
\* updated_at first) put into loaded_configs one after the other: a name
\* read twice keeps the data read last
RECURSIVE LoadedConfigs(_, _)
LoadedConfigs(rows, user) ==
    IF rows = <<>> THEN <<>>
    ELSE LET row == rows[Len(rows)]
             rest == SubSeq(rows, 1, Len(rows) - 1)
             later == LoadedConfigs(rest, user)
         IN  IF row.user_context = user /\ row.is_active
             THEN SetItems(<<Item(row.config_name, json_loads(row.config_data))>>, later)
             ELSE later

\* the two configs of insert_sample_data
SampleConfigs ==
    << [name |-> "sample1",
        data |-> [db |-> "SAMPLE_DB", schema |-> "PUBLIC", table |-> "SALES_DATA",
                  conditions |->
                      <<Item(<<"date", "_range">>,
                             PyDict([from |-> PyStr(<<"2024-01-01">>),
                                     to |-> PyStr(<<"2024-12-31">>)])),
                        Item(<<"group_by">>, PyList(<< <<"REGION">>, <<"PRODUCT_CATEGORY">> >>))>>,
                  join_conditions |-> <<>>,
                  filter_conditions |-> <<>>]],
       [name |-> "sample2",
        data |-> [db |-> "SAMPLE_DB", schema |-> "PUBLIC", table |-> "CUSTOMER_DATA",
                  conditions |->
                      <<Item(<<"limit_rows">>, PyNum(DefaultLimit)),
                        Item(<<"sort_column">>, PyStr(<<"CREATED_DATE">>)),
                        Item(<<"sort_order">>, PyStr(<<"DESC">>))>>,
                  join_conditions |->
                      <<Join("ORDER_DATA", "LEFT JOIN", <<"CUSTOMER_ID">>, <<"CUSTOMER_ID">>)>>,
                  filter_conditions |-> <<Filter(ColStatus, "select")>>]] >>

\* insert_sample_data: every sample config is inserted as an active row; no
\* row is deactivated before
insert_sample_data(rows, user, raises) ==
    IF raises THEN [ret |-> FALSE, rows |-> rows]
    ELSE [ret |-> TRUE,
          rows |-> rows \o [i \in DOMAIN SampleConfigs |->
                               ConfigRow(SampleConfigs[i].name, user,
                                         json_dumps(SampleConfigs[i].data), TRUE)]]

\* update_last_used: the active rows of the name get a new updated_at (rows
\* written by one statement keep their order)
update_last_used(rows, user, config_name) ==
    LET hit(r) == r.user_context = user /\ r.config_name = config_name /\ r.is_active
    IN  SelectSeq(rows, LAMBDA r : ~hit(r)) \o SelectSeq(rows, hit)

\* new_config of save_current_config: the six fields of the session
new_config(s) ==
    [db |-> s.selected_db, schema |-> s.selected_schema, table |-> s.selected_table,
     conditions |-> s.query_conditions,
     join_conditions |-> s.join_conditions,
     filter_conditions |-> s.filter_conditions]


\* del d[k]
DictDel(d, k) == SelectSeq(d, LAMBDA item : item.key # k)
DictKeys(d) == {d[i].key : i \in DOMAIN d}

\* Lists are objects: load_saved_config stores the config's own lists in the
\* session, and append, pop and dict.update change a list in place, so while
\* the session holds the lists of saved_configs[alias] the config shows
\* every change made to them
SharedLists(s) ==
    IF s.alias # None /\ HasKey(s.saved_configs, s.alias)
    THEN [s EXCEPT !.saved_configs =
            DictSet(@, s.alias,
                    [DictGet(@, s.alias, <<>>) EXCEPT
                        !.join_conditions = s.join_conditions,
                        !.filter_conditions = s.filter_conditions])]
    ELSE s

\* load_persistent_configs / force_reload_configs against the config table:
\* saved_configs is bound to newly built dicts and lists
ReadConfigs(s, rows) ==
    [load_persistent_configs(s, [configs |-> LoadedConfigs(rows, UserContext)])
        EXCEPT !.alias = None]
ReloadedConfigs(s, rows) ==
    [force_reload_configs(s, [configs |-> LoadedConfigs(rows, UserContext)])
        EXCEPT !.alias = None]

\* one script run of main() that completes without a button being pressed:
\* the saved configs are read once, then the page is rendered
ConfigPage(s, rows, cat) ==
    SharedLists(RenderPage(IF s.persistent_configs_loaded THEN s
                           ELSE ReadConfigs(s, rows), cat))

\* load_saved_config up to its st.rerun()
LoadedSession(s, config_name) ==
    [load_saved_config(s, DictGet(s.saved_configs, config_name, <<>>))
        EXCEPT !.alias = config_name]

\* delete_saved_config for a listed name: [s, rows, rerun]
delete_saved_config(s, rows, config_name, raises) ==
    LET r == delete_config_from_table(rows, UserContext, config_name, raises)
    IN  IF r.ret
        THEN [s |-> [s EXCEPT !.saved_configs = DictDel(@, config_name),
                              !.alias = IF @ = config_name THEN None ELSE @],
              rows |-> r.rows, rerun |-> TRUE]
        ELSE [s |-> s, rows |-> rows, rerun |-> FALSE]

\* delete_all_configs: [s, rows, rerun]
delete_all_configs(s, rows, raises) ==
    IF raises THEN [s |-> s, rows |-> rows, rerun |-> FALSE]
    ELSE [s |-> [s EXCEPT !.saved_configs = <<>>, !.alias = None],
          rows |-> Deactivate(rows, UserContext,
                              {rows[i].config_name : i \in DOMAIN rows}),
          rerun |-> TRUE]

\* the delete button of the list view: the first press sets the confirm flag
\* and re-runs; a press with the flag set deletes, and the line that clears
\* the flag runs only when delete_saved_config returns (st.rerun() ends the
\* script run by raising)
PressDeleteList(s, rows, config_name, raises) ==
    IF config_name \in s.confirm_delete
    THEN LET d == delete_saved_config(s, rows, config_name, raises)
         IN  IF d.rerun THEN d
             ELSE [d EXCEPT !.s.confirm_delete = @ \ {config_name}]
    ELSE [s |-> [s EXCEPT !.confirm_delete = @ \cup {config_name}],
          rows |-> rows, rerun |-> TRUE]

\* the delete button of the card view
PressDeleteCard(s, rows, config_name, raises) ==
    delete_saved_config(s, rows, config_name, raises)

\* the "delete all" button
PressDeleteAll(s, rows, raises) ==
    IF s.confirm_delete_all
    THEN LET d == delete_all_configs(s, rows, raises)
         IN  IF d.rerun THEN d
             ELSE [d EXCEPT !.s.confirm_delete_all = FALSE]
    ELSE [s |-> [s EXCEPT !.confirm_delete_all = TRUE], rows |-> rows, rerun |-> TRUE]

\* ---------------------------------------------------------------- SpecCfg
MaxConfigFilters == 1

\* the names the user saves under; the load and delete buttons pressed are
\* those of these names
ConfigNames == {"cfg1"}

\* init_session_state on an empty session; no confirm flag is set, no list
\* is shared
ConfigSession ==
    [selected_db |-> None, selected_schema |-> None, selected_table |-> None,
     join_conditions |-> <<>>, filter_conditions |-> <<>>,
     query_conditions |-> <<>>, result_data |-> None, query_executed |-> FALSE,
     last_error |-> None, widgets |-> <<>>,
     saved_configs |-> <<>>, persistent_configs_loaded |-> FALSE,
     confirm_delete |-> {}, confirm_delete_all |-> FALSE, alias |-> None]

\* what the last script run did: the button pressed, the config name it was
\* about and what the called function returned
ConfigRun(op, name, ret) == [op |-> op, name |-> name, ret |-> ret]
ConfigIdle == ConfigRun("idle", None, TRUE)
\* a script run in which no config was saved
ConfigPageRun == ConfigRun("page", None, TRUE)

\* the json file of the import section: one exported config
ImportFile ==
    <<Item("cfg1", [db |-> DB, schema |-> SC, table |-> T1,
                    conditions |-> DefaultAggregation,
                    join_conditions |-> <<>>,
                    filter_conditions |-> <<Filter(ColD, "range")>>])>>

InitCfg ==
    /\ ss = ConfigSession
    /\ cache = Catalog(RowsT1b, RowsT2)
    /\ warehouse = [rows |-> insert_sample_data(<<>>, UserContext, FALSE).rows]
    /\ run = ConfigIdle

ConfigShown == run.op # "idle"
ConfigListed(name) == ConfigShown /\ HasKey(ss.saved_configs, name)

\* the page is opened
CfgOpen ==
    /\ ~ConfigShown
    /\ ss' = ConfigPage(ss, warehouse.rows, cache)
    /\ run' = ConfigPageRun
    /\ UNCHANGED <<cache, warehouse>>

\* "add JOIN": join_conditions.append(new_join), st.rerun()
CfgAddJoin ==
    /\ ConfigShown
    /\ Len(ss.join_conditions) < MaxSessionJoins
    /\ LET join_table == AvailableTables(ss)[1]
           left_table_cols == ColumnNames(get_dynamic_columns(cache, ss.selected_table))
           right_table_cols == ColumnNames(get_dynamic_columns(cache, join_table))
       IN  ss' = ConfigPage([ss EXCEPT !.join_conditions =
                         Append(@, Join(join_table, JoinTypeOptions[1],
                                        left_table_cols[1], right_table_cols[1]))],
                            warehouse.rows, cache)
    /\ run' = ConfigPageRun
    /\ UNCHANGED <<cache, warehouse>>

\* "delete JOIN": join_conditions.pop(i), st.rerun()
CfgRemoveJoin ==
    /\ ConfigShown
    /\ \E i \in DOMAIN ss.join_conditions :
        ss' = ConfigPage([ss EXCEPT !.join_conditions =
                             SubSeq(@, 1, i - 1) \o SubSeq(@, i + 1, Len(@))],
                         warehouse.rows, cache)
    /\ run' = ConfigPageRun
    /\ UNCHANGED <<cache, warehouse>>

\* "add condition": filter_conditions.append({column, type}), st.rerun()
CfgAddFilter ==
    /\ ConfigShown
    /\ Len(ss.filter_conditions) < MaxConfigFilters
    /\ ss' = ConfigPage([ss EXCEPT !.filter_conditions =
                             Append(@, Filter(ColD, CondTypes[2]))],
                        warehouse.rows, cache)
    /\ run' = ConfigPageRun
    /\ UNCHANGED <<cache, warehouse>>

\* "delete condition": filter_conditions.pop(i), st.rerun()
CfgRemoveFilter ==
    /\ ConfigShown
    /\ \E i \in DOMAIN ss.filter_conditions :
        ss' = ConfigPage([ss EXCEPT !.filter_conditions =
                             SubSeq(@, 1, i - 1) \o SubSeq(@, i + 1, Len(@))],
                         warehouse.rows, cache)
    /\ run' = ConfigPageRun
    /\ UNCHANGED <<cache, warehouse>>

\* "save config": save_config_to_table; on True force_reload_configs() and
\* st.rerun(), on False an error message and the run goes on
CfgSave ==
    /\ ConfigShown
    /\ \E config_name \in ConfigNames, outcome \in SaveOutcomes :
        LET r == save_config_to_table(warehouse.rows, UserContext, config_name,
                                      new_config(ss), outcome)
        IN  /\ Len(r.rows) <= MaxConfigRows
            /\ warehouse' = [warehouse EXCEPT !.rows = r.rows]
            /\ ss' = IF r.ret
                     THEN ConfigPage(ReloadedConfigs(ss, r.rows), r.rows, cache)
                     ELSE ss
            /\ run' = ConfigRun("save", config_name, r.ret)
    /\ UNCHANGED cache

\* "import": every selected config of the file is saved; force_reload_configs()
\* and st.rerun() when at least one was
CfgImport ==
    /\ ConfigShown
    /\ \E outcome \in SaveOutcomes :
        LET r == save_config_to_table(warehouse.rows, UserContext, ImportFile[1].key,
                                      ImportFile[1].value, outcome)
        IN  /\ Len(r.rows) <= MaxConfigRows
            /\ warehouse' = [warehouse EXCEPT !.rows = r.rows]
            /\ ss' = IF r.ret
                     THEN ConfigPage(ReloadedConfigs(ss, r.rows), r.rows, cache)
                     ELSE ss
            /\ run' = ConfigRun("import", ImportFile[1].key, r.ret)
    /\ UNCHANGED cache

\* the load button of a listed config: load_saved_config, update_last_used,
\* st.rerun()
CfgLoad ==
    /\ \E config_name \in ConfigNames :
        /\ ConfigListed(config_name)
        /\ warehouse' = [warehouse EXCEPT
                            !.rows = update_last_used(@, UserContext, config_name)]
        /\ ss' = ConfigPage(LoadedSession(ss, config_name), warehouse'.rows, cache)
        /\ run' = ConfigPageRun
    /\ UNCHANGED cache

\* the delete button of a listed config in the list view
CfgDeleteList ==
    /\ \E config_name \in ConfigNames, raises \in BOOLEAN :
        LET d == PressDeleteList(ss, warehouse.rows, config_name, raises)
        IN  /\ ConfigListed(config_name)
            /\ warehouse' = [warehouse EXCEPT !.rows = d.rows]
            /\ ss' = IF d.rerun THEN ConfigPage(d.s, d.rows, cache) ELSE d.s
            /\ run' = ConfigPageRun
    /\ UNCHANGED cache

\* the delete button of a listed config in the card view
CfgDeleteCard ==
    /\ \E config_name \in ConfigNames, raises \in BOOLEAN :
        LET d == PressDeleteCard(ss, warehouse.rows, config_name, raises)
        IN  /\ ConfigListed(config_name)
            /\ warehouse' = [warehouse EXCEPT !.rows = d.rows]
            /\ ss' = IF d.rerun THEN ConfigPage(d.s, d.rows, cache) ELSE d.s
            /\ run' = ConfigPageRun
    /\ UNCHANGED cache

\* the "delete all" button, shown while saved_configs is not empty
CfgDeleteAll ==
    /\ ConfigShown
    /\ ss.saved_configs # <<>>
    /\ \E raises \in BOOLEAN :
        LET d == PressDeleteAll(ss, warehouse.rows, raises)
        IN  /\ warehouse' = [warehouse EXCEPT !.rows = d.rows]
            /\ ss' = IF d.rerun THEN ConfigPage(d.s, d.rows, cache) ELSE d.s
            /\ run' = ConfigPageRun
    /\ UNCHANGED cache

\* the "insert sample data" button of the setup page
CfgInsertSample ==
    /\ \E raises \in BOOLEAN :
        LET r == insert_sample_data(warehouse.rows, UserContext, raises)
        IN  /\ Len(r.rows) <= MaxConfigRows
            /\ warehouse' = [warehouse EXCEPT !.rows = r.rows]
            /\ run' = run
    /\ UNCHANGED <<ss, cache>>

\* the "reload settings" button: force_reload_configs(), st.rerun()
CfgReload ==
    /\ ConfigShown
    /\ ss' = ConfigPage(ReloadedConfigs(ss, warehouse.rows), warehouse.rows, cache)
    /\ run' = ConfigPageRun
    /\ UNCHANGED <<cache, warehouse>>

\* the reset button: the keys are deleted and initialised again, st.rerun()
CfgReset ==
    /\ ConfigShown
    /\ ss' = ConfigPage([ResetSession(ss) EXCEPT !.alias = None], warehouse.rows, cache)
    /\ run' = ConfigPageRun
    /\ UNCHANGED <<cache, warehouse>>

NextCfg ==
    \/ CfgOpen \/ CfgAddJoin \/ CfgRemoveJoin \/ CfgAddFilter \/ CfgRemoveFilter
    \/ CfgSave \/ CfgImport \/ CfgLoad \/ CfgDeleteList \/ CfgDeleteCard
    \/ CfgDeleteAll \/ CfgInsertSample \/ CfgReload \/ CfgReset

SpecCfg == InitCfg /\ [][NextCfg]_vars

\* ================================================================ chat collaborator
\* send_message and process_message of src/EasyData_View/utils.py.  In
\* SpecChat the warehouse is the answer of the Cortex Analyst API to one
\* request: [raises, status, content], content being the body text as tokens;
\* run is what the called function returned or that it raised.

\* json.loads accepts a body: an object whose braces and brackets close in
\* the order they were opened
RECURSIVE Closes(_, _)
Closes(text, open) ==
    IF text = <<>> THEN open = <<>>
    ELSE IF Head(text) \in {"{", "["} THEN Closes(Tail(text), <<Head(text)>> \o open)
    ELSE IF Head(text) = "}"
    THEN open # <<>> /\ Head(open) = "{" /\ Closes(Tail(text), Tail(open))
    ELSE IF Head(text) = "]"
    THEN open # <<>> /\ Head(open) = "[" /\ Closes(Tail(text), Tail(open))
    ELSE Head(text) # "<html>" /\ Closes(Tail(text), open)
JsonValid(text) == text # <<>> /\ Head(text) = "{" /\ Closes(text, <<>>)

\* json.loads(resp["content"]) of a valid body: the keys of the object and,
\* when there is one, the list under message.content
JsonBody(text) ==
    [keys |-> {text[i] : i \in {k \in DOMAIN text :
                                   k = 2 /\ text[k] \notin {"{", "}"}}},
     content |-> IF Len(text) > 6 /\ text[2] = "message" /\ text[4] = "content"
                 THEN <<[type |-> "text", text |-> text[6]]>> ELSE <<>>]

\* the bodies the API sends
AnswerText == "SELECT 1"
Bodies ==
    { <<"{", "message", "{", "content", "[", AnswerText, "]", "}", "}">>,
      <<"{", "error", "quota", "}">>,
      <<"{", "}">>,
      <<"{", "message", "{", "content", "[", AnswerText>>,
      <<"<html>", "Bad Gateway">> }

Statuses == {200, 201, 204, 301, 302, 399, 400, 404, 500}

Answers ==
    {[raises |-> TRUE, status |-> 200, content |-> <<>>]}
    \cup {[raises |-> FALSE, status |-> s, content |-> b] : s \in Statuses, b \in Bodies}

ChatNone == [keys |-> {}, content |-> <<>>, none |-> TRUE]
\* the one item [{"type": "text", "text": <error message>}]
ChatErrorItem == <<[type |-> "text", text |-> "error while generating the response"]>>

\* send_message: the parsed body when the status is below 400 and the body
\* parses, None when the request, the status test or json.loads raises
send_message(answer) ==
    IF answer.raises THEN ChatNone
    ELSE IF answer.status < 400
    THEN IF JsonValid(answer.content)
         THEN JsonBody(answer.content) @@ [none |-> FALSE]
         ELSE ChatNone
    ELSE ChatNone

\* process_message: [ret, raised]; a response that is not falsy is indexed
\* with ["message"]["content"], which raises KeyError when the key is missing
process_message(answer) ==
    LET response == send_message(answer)
    IN  IF ~response.none /\ response.keys # {}
        THEN IF "message" \in response.keys /\ response.content # <<>>
             THEN [ret |-> response.content, raised |-> FALSE]
             ELSE [ret |-> <<>>, raised |-> TRUE]
        ELSE [ret |-> ChatErrorItem, raised |-> FALSE]

ChatIdle == [op |-> "idle", response |-> ChatNone, ret |-> <<>>, raised |-> FALSE]

InitChat ==
    /\ warehouse \in Answers
    /\ ss = <<>>
    /\ cache = <<>>
    /\ run = ChatIdle

ChatSend ==
    /\ run.op = "idle"
    /\ run' = [ChatIdle EXCEPT !.op = "send", !.response = send_message(warehouse)]
    /\ UNCHANGED <<ss, cache, warehouse>>

ChatProcess ==
    /\ run.op = "idle"
    /\ run' = [ChatIdle EXCEPT !.op = "process",
                               !.response = send_message(warehouse),
                               !.ret = process_message(warehouse).ret,
                               !.raised = process_message(warehouse).raised]
    /\ UNCHANGED <<ss, cache, warehouse>>

NextChat == ChatSend \/ ChatProcess

SpecChat == InitChat /\ [][NextChat]_vars

\* ================================================================ condition keys
\* One filter from the filter UI to the WHERE fragments.  In SpecKey the
\* session is one row of the main table's schema with the widget values of a
\* filter on that column; run holds the entry render_dynamic_filters writes
\* for it (key = column name + suffix) and the fragments generate_sql_query
\* compiles from that entry.

\* column names, some containing a suffix the compiler looks for:
\* A, ORDER_index, STATUS_info, PRICE_range, IS_likeD, X_customER
KeyColumns ==
    { ColA,
      <<"ORDER", "_in", "dex">>,
      <<"STATUS", "_in", "fo">>,
      <<"PRICE", "_range">>,
      <<"IS", "_like", "D">>,
      <<"X", "_custom", "ER">> }

KeyRows == {Row(c, t, TRUE, << <<"open">> >>) : c \in KeyColumns, t \in {"VARCHAR", "NUMBER", "DATE"}}

\* a filter's widgets with a value entered in each
KeyWidgets ==
    {[condition_type |-> ct, select |-> << <<"open">> >>, input |-> <<"x", ",", " ", "y">>,
      min |-> 5, max |-> 0, range_type |-> lt, range_value |-> <<"ab">>,
      custom |-> CustomText] : ct \in {CondTypes[i] : i \in DOMAIN CondTypes},
                               lt \in {LikeTypes[i] : i \in DOMAIN LikeTypes}}

KeyIdle == [op |-> "idle", entry |-> <<>>, frags |-> <<>>]

InitKey ==
    /\ ss \in [row : KeyRows, w : KeyWidgets]
    /\ cache = <<>>
    /\ warehouse = <<>>
    /\ run = KeyIdle

\* the loop body of render_dynamic_filters for the filter
KeyRender ==
    /\ run.op = "idle"
    /\ run' = [KeyIdle EXCEPT
                 !.op = "rendered",
                 !.entry = FilterEntry(Filter(ss.row.name, ss.w.condition_type), ss.w,
                                       get_dynamic_columns(T1 :> <<ss.row>>, T1))]
    /\ UNCHANGED <<ss, cache, warehouse>>

\* the loop body of generate_sql_query for the entry
KeyCompile ==
    /\ run.op = "rendered"
    /\ run.entry # <<>>
    /\ run' = [run EXCEPT
                 !.op = "compiled",
                 !.frags = ConditionFragments(run.entry[1].key, run.entry[1].value).frags]
    /\ UNCHANGED <<ss, cache, warehouse>>

NextKey == KeyRender \/ KeyCompile

SpecKey == InitKey /\ [][NextKey]_vars

\* ================================================================ two sessions
\* Two browser sessions of the app running at the same time.  In SpecTwo ss
\* maps each session to its st.session_state; the cache is what
\* @st.cache_data keeps for get_snowflake_metadata and get_table_schema, with
\* the session whose call filled each get_table_schema entry.  st.cache_data
\* keys an entry by the function and its hashed arguments (the _session
\* argument is not hashed), in one store per server process; whether two
\* sessions run in one process is the deployment's choice, so the scope of
\* the store is "process" (one store, slot 0) or "session" (a store per
\* session, slots 1 and 2).
Sessions == {1, 2}
CacheScopes == {"process", "session"}
MaxTwoFilters == 1

CacheSlot(scope, k) == IF scope = "process" THEN 0 ELSE k

EmptySlot == EmptyCache @@ [by |-> (T1 :> 0) @@ (T2 :> 0)]

TwoWarehouses ==
    {[tree |-> Tree(<<T1, T2>>, <<T2>>), down |-> {}, columns |-> Catalog(r1, RowsT2),
      configs |-> <<>>] : r1 \in {RowsT1, RowsT1b, Unfetchable}}

TwoIdle == [op |-> "idle", who |-> 0, hit |-> FALSE, by |-> 0]

\* the Catalog as session k's script run sees it through the store
CatalogView(slot) ==
    [t \in {T1, T2} |-> IF slot.schema[t] # <<>> THEN slot.schema[t][1] ELSE <<>>]

\* one script run of session k with st.session_state s: the Catalog calls go
\* through the store of k's slot, then the page is rendered
TwoScriptRun(k, s) ==
    LET sl == CacheSlot(cache.scope, k)
        slot == cache.slots[sl]
        table == SelectboxValue(SchemaTables, s.selected_table)
        r == script_run("page", [metadata |-> slot.metadata, schema |-> slot.schema],
                        warehouse, table)
        filled == "schema" \in r.run.queried
        by == IF filled THEN [slot.by EXCEPT ![table] = k] ELSE slot.by
    IN  /\ cache' = [cache EXCEPT !.slots[sl] = r.cache @@ [by |-> by]]
        /\ ss' = [ss EXCEPT ![k] = RenderPage(s, CatalogView(r.cache))]
        /\ run' = [op |-> "page", who |-> k, hit |-> ~filled, by |-> by[table]]
        /\ UNCHANGED warehouse

InitTwo ==
    /\ ss = [k \in Sessions |-> InitSession]
    /\ cache \in [scope : CacheScopes, slots : {[sl \in 0..2 |-> EmptySlot]}]
    /\ warehouse \in TwoWarehouses
    /\ run = TwoIdle

\* session k loads the page or re-runs it
TwoRerun(k) ==
    /\ k \in Sessions
    /\ TwoScriptRun(k, ss[k])

\* session k picks the other table in the table selectbox
TwoSelectTable(k) ==
    /\ NameSet(ss[k].selected_table)
    /\ \E t \in {T1, T2} \ {ss[k].selected_table} :
           TwoScriptRun(k, [ss[k] EXCEPT !.selected_table = t])

\* session k adds a filter on the first offered column
TwoAddFilter(k) ==
    /\ NameSet(ss[k].selected_table)
    /\ Len(ss[k].filter_conditions) < MaxTwoFilters
    /\ LET columns == get_dynamic_columns(
                          CatalogView(cache.slots[CacheSlot(cache.scope, k)]),
                          ss[k].selected_table)
       IN  /\ columns # <<>>
           /\ TwoScriptRun(k, [ss[k] EXCEPT !.filter_conditions =
                                  Append(@, Filter(columns[1].name, CondTypes[1]))])

\* an hour passes: every entry is past its ttl
TwoExpire ==
    /\ \E sl \in 0..2 : cache.slots[sl] # EmptySlot
    /\ cache' = [cache EXCEPT !.slots = [sl \in 0..2 |-> EmptySlot]]
    /\ run' = TwoIdle
    /\ UNCHANGED <<ss, warehouse>>

\* columns or permissions change in the warehouse
TwoWarehouseChange ==
    /\ warehouse' \in TwoWarehouses \ {warehouse}
    /\ run' = TwoIdle
    /\ UNCHANGED <<ss, cache>>

NextTwo ==
    \/ \E k \in Sessions : TwoRerun(k)
    \/ \E k \in Sessions : TwoSelectTable(k)
    \/ \E k \in Sessions : TwoAddFilter(k)
    \/ TwoExpire
    \/ TwoWarehouseChange

SpecTwo == InitTwo /\ [][NextTwo]_vars

\* ================================================================ claims
IndexOfKind(msgs, k) == {n \in DOMAIN msgs : msgs[n].kind = k}
JoinMsgs(msgs, i) == {n \in DOMAIN msgs : msgs[n].join = i}
Validated == run.op \in {"validate", "execute"}
Generated == run.op \in {"generate", "execute"} /\ run.compiled

\* C1: when validation reports at least one error, execute_query returns
\* (None, None) without calling generate_sql_query and without handing any
\* query text to the warehouse, and the caller leaves result_data and
\* query_executed as they were.
C1_ErrorsStopExecution ==
    (run.op = "execute" /\ run.errors # <<>>) =>
        /\ run.ret = RetNone
        /\ ~run.compiled
        /\ ~run.sent
        /\ run.sent_text = <<>>
        /\ ss.result_data = None
        /\ ss.query_executed = FALSE

C1_Witness ==
    /\ run.op = "execute"
    /\ run.errors # <<>>
    /\ IndexOfKind(run.errors, "JoinColumnNotInTable") # {}

\* C2 (as stated): an exception raised while rendering one filter condition or
\* while looking up the numeric columns makes generate_sql_query return None,
\* and no query text that lost a predicate or a projection column to an
\* exception reaches the warehouse.
C2_ExceptionsAbortCompilation ==
    (run.op = "execute" /\ run.compiled
        /\ (run.gen.swallowed # <<>> \/ run.gen.numeric_failed)) =>
        (~run.gen.ok /\ ~run.sent)

\* C3 (as stated): a recorded last_error changes only when the user presses
\* the dismiss button or resets; every other action (an execution that returns
\* rows, returns no rows or fails validation, loading a saved config, editing
\* filters or joins) leaves it in place.
C3_ErrorKeptUntilDismissOrReset ==
    [][(ss.last_error # None /\ ss'.last_error # ss.last_error) =>
          (DismissError \/ Reset)]_vars

\* C3 (amended): a recorded last_error stays through executions that return no
\* rows, fail validation or fail to compile and through every edit of filters
\* and joins; it is cleared by the dismiss button, by reset, by an execution
\* that returns rows, and by loading a saved config; an execution the
\* warehouse rejects puts its own message in its place.
C3_ErrorKeptUntilClearedOrSuccess ==
    [][(ss.last_error # None /\ ss'.last_error # ss.last_error) =>
          \/ DismissError
          \/ Reset
          \/ LoadConfig
          \/ (Execute /\ run'.op = "execute" /\ run'.sent /\ run'.ret = RetRows
                 /\ ss'.last_error = None)
          \/ (Execute /\ run'.op = "execute" /\ run'.sent /\ run'.ret = RetNone
                 /\ ss'.last_error # None)]_vars

\* an execution returned no rows and the earlier error is still recorded
C3_Witness ==
    /\ run.op = "execute"
    /\ run.sent
    /\ run.ret = RetEmpty
    /\ ss.last_error = RespError
    /\ ss.result_data = RetEmpty

\* C4 (as stated): when validation reports no error and both column sets are
\* fetchable, every join has its left_col among the main table's columns and
\* its right_col among the target table's columns.
C4_BothJoinColumnsChecked ==
    (run.op = "validate" /\ run.errors = <<>>) =>
        \A i \in DOMAIN ss.join_conditions :
            LET j == ss.join_conditions[i]
                main_columns == get_dynamic_columns(cache, ss.selected_table)
                join_columns == get_dynamic_columns(cache, j.table)
            IN  (main_columns # <<>> /\ join_columns # <<>>) =>
                    /\ InColumns(j.left_col, main_columns)
                    /\ InColumns(j.right_col, join_columns)

\* C5: a join at 0-based position i-1 whose target table's columns are
\* fetched and non-empty and whose right_col names a column that is not among
\* them gets exactly one error naming join number i, that column and that
\* table, and no warning.
C5_MissingRightColumnIsOneError ==
    Validated =>
        \A i \in DOMAIN ss.join_conditions :
            LET j == ss.join_conditions[i]
                join_columns == get_dynamic_columns(cache, j.table)
            IN  (join_columns # <<>> /\ TextSet(j.right_col)
                    /\ ~InColumns(j.right_col, join_columns)) =>
                    /\ Cardinality({n \in DOMAIN run.errors :
                           run.errors[n] = ErrJoinColumn(i, j.right_col, j.table)}) = 1
                    /\ Cardinality({n \in JoinMsgs(run.errors, i) :
                           run.errors[n].kind = "JoinColumnNotInTable"}) = 1
                    /\ JoinMsgs(run.warnings, i) = {}

C5_Witness ==
    /\ run.op = "validate"
    /\ Len(ss.join_conditions) = 2
    /\ ss.join_conditions[2] = Join(T2, "LEFT JOIN", ColA, ColZ)
    /\ ss.join_conditions[1] = Join(T2, "LEFT JOIN", ColA, ColK)
    /\ cache[T2] = RowsT2
    /\ run.errors = <<ErrJoinColumn(2, ColZ, T2)>>

\* C6: a join with a target table, a left and a right column whose target
\* table's columns cannot be fetched gets a warning and no error; a session
\* whose joins all are of that kind is compiled and its text is sent.
UnintrospectableJoin(j) ==
    /\ NameSet(j.table) /\ TextSet(j.left_col) /\ TextSet(j.right_col)
    /\ get_dynamic_columns(cache, j.table) = <<>>

C6_UnfetchableJoinOnlyWarns ==
    Validated =>
        /\ \A i \in DOMAIN ss.join_conditions :
               UnintrospectableJoin(ss.join_conditions[i]) =>
                   /\ JoinMsgs(run.errors, i) = {}
                   /\ \E n \in JoinMsgs(run.warnings, i) :
                          run.warnings[n] = WarnJoinColumns(i, ss.join_conditions[i].table)
        /\ (run.op = "execute"
              /\ \A i \in DOMAIN ss.join_conditions :
                     UnintrospectableJoin(ss.join_conditions[i])) =>
               (run.errors = <<>> /\ run.compiled /\ run.gen.ok /\ run.sent
                  /\ run.sent_text = run.gen.text)

C6_Witness ==
    /\ run.op = "execute"
    /\ Len(ss.join_conditions) = 2
    /\ \A i \in DOMAIN ss.join_conditions : UnintrospectableJoin(ss.join_conditions[i])
    /\ Len(run.warnings) = 2
    /\ run.sent

\* C7: a filter whose (non-empty) column is not among the main table's
\* columns gets a warning naming the column and no error at execution, the
\* execution goes on to compile when no other rule reported an error, and
\* the filter stays in filter_conditions through every action other than the
\* user's removal of a filter, load of a saved config or reset.
DanglingFilter(i) ==
    /\ TextSet(ss.filter_conditions[i].column)
    /\ ~InColumns(ss.filter_conditions[i].column,
                  get_dynamic_columns(cache, ss.selected_table))

C7_DanglingFilterWarnsAndStays ==
    [][\A i \in DOMAIN ss.filter_conditions :
          DanglingFilter(i) =>
            /\ Execute =>
                 /\ \E n \in DOMAIN run'.warnings :
                        run'.warnings[n] = WarnFilterColumn(ss.filter_conditions[i].column)
                 /\ \A n \in DOMAIN run'.errors :
                        run'.errors[n].kind # "FilterColumnNotInMain"
                 /\ (run'.errors = <<>> => (run'.compiled /\ run'.gen.ok /\ run'.sent))
            /\ ~(RemoveFilter \/ LoadConfig \/ Reset) =>
                 /\ i \in DOMAIN ss'.filter_conditions
                 /\ ss'.filter_conditions[i] = ss.filter_conditions[i]]_vars

\* an execution was sent although a filter names a column the main table lost
C7_Witness ==
    /\ run.op = "execute"
    /\ run.sent
    /\ \E i \in DOMAIN ss.filter_conditions :
          /\ DanglingFilter(i)
          /\ \E n \in DOMAIN run.warnings :
                run.warnings[n] = WarnFilterColumn(ss.filter_conditions[i].column)

\* C8: with no main table selected and at least one malformed join, the
\* "no main table" error is the first error, it occurs once, and the join
\* errors follow in join order: all errors of join i before any of join i+1.
C8_ValidatorRuleOrder ==
    (run.op = "validate" /\ ~NameSet(ss.selected_table)) =>
        /\ run.errors # <<>>
        /\ run.errors[1] = ErrNoMainTable
        /\ IndexOfKind(run.errors, "NoMainTable") = {1}
        /\ \A k, l \in DOMAIN run.errors : k < l => run.errors[k].join <= run.errors[l].join
        /\ \A k \in DOMAIN run.errors : k > 1 => run.errors[k].join \in DOMAIN ss.join_conditions

C8_Witness ==
    /\ run.op = "validate"
    /\ ~NameSet(ss.selected_table)
    /\ Len(ss.join_conditions) = 2
    /\ JoinMsgs(run.errors, 1) # {}
    /\ Cardinality(JoinMsgs(run.errors, 2)) = 2
    /\ Len(run.errors) >= 4

\* the lines of a text: text.split("\n")
RECURSIVE SplitLines(_)
SplitLines(text) ==
    IF \A i \in DOMAIN text : text[i] # NL THEN <<text>>
    ELSE LET n == CHOOSE i \in DOMAIN text :
                      text[i] = NL /\ \A m \in 1..(i - 1) : text[m] # NL
         IN  <<SubSeq(text, 1, n - 1)>> \o SplitLines(SubSeq(text, n + 1, Len(text)))

JoinTypes == {"INNER JOIN", "LEFT JOIN", "RIGHT JOIN", "FULL OUTER JOIN"}

\* the clause a line of compiled text opens or continues
ClauseOf(line) ==
    IF line = <<>> THEN "?"
    ELSE CASE line[1] \in {"SELECT ", "SELECT *"} -> "SELECT"
           [] line[1] = "FROM "     -> "FROM"
           [] line[1] \in JoinTypes -> "JOIN"
           [] line[1] = "  ON "     -> "ON"
           [] line[1] = "WHERE "    -> "WHERE"
           [] line[1] = "  AND "    -> "AND"
           [] line[1] = "GROUP BY " -> "GROUP BY"
           [] line[1] = "ORDER BY " -> "ORDER BY"
           [] line[1] = "LIMIT "    -> "LIMIT"
           [] OTHER                 -> "?"

ClauseRank(c) ==
    CASE c = "SELECT" -> 1 [] c = "FROM" -> 2 [] c \in {"JOIN", "ON"} -> 3
      [] c \in {"WHERE", "AND"} -> 4 [] c = "GROUP BY" -> 5 [] c = "ORDER BY" -> 6
      [] c = "LIMIT" -> 7 [] OTHER -> 0

LinesOf(c, lines) == {i \in DOMAIN lines : ClauseOf(lines[i]) = c}

\* the predicates the filter list as it stands stands for: for each filter
\* with a value, in list order, the predicate of its own entry
RECURSIVE ExpectedWhere(_, _, _, _)
ExpectedWhere(filters, widgets, dynamic_columns, i) ==
    IF i > Len(filters) THEN <<>>
    ELSE LET e == FilterEntry(filters[i], WidgetAt(widgets, filters, i), dynamic_columns)
         IN  (IF e = <<>> \/ ~Truthy(e[1].value) THEN <<>>
              ELSE ConditionFragments(e[1].key, e[1].value).frags)
             \o ExpectedWhere(filters, widgets, dynamic_columns, i + 1)

\* C9 (as stated): once the page is rendered, the WHERE predicates of the
\* compiled query are those of the filters in filter_conditions that have a
\* value, one per filter and in list order, whatever adds, edits and removals
\* came before, two filters on the same column and of the same kind included.
C9_WhereFollowsFilterList ==
    (PageShown /\ PanelShown /\ ss = RenderPage(ss, cache)) =>
        generate_sql_query(ss, cache, cache).where_conditions
            = ExpectedWhere(ss.filter_conditions, ss.widgets,
                            get_dynamic_columns(cache, ss.selected_table), 1)

\* C10: a compiled query is the newline-joined clauses SELECT, FROM, the join
\* lines in join order, WHERE, GROUP BY, ORDER BY, LIMIT in that order; SELECT
\* and FROM are always there, GROUP BY iff group_by is non-empty, ORDER BY iff
\* sort_column is set, and only join lines repeat.
C10_ClauseOrder ==
    (Generated /\ run.gen.ok) =>
        LET lines == SplitLines(run.gen.text)
            joins == ss.join_conditions
        IN  /\ Len(lines) >= 2
            /\ ClauseOf(lines[1]) = "SELECT"
            /\ ClauseOf(lines[2]) = "FROM"
            /\ \A i \in DOMAIN lines : ClauseRank(ClauseOf(lines[i])) > 0
            /\ \A i, j \in DOMAIN lines :
                   i < j => ClauseRank(ClauseOf(lines[i])) <= ClauseRank(ClauseOf(lines[j]))
            /\ \A c \in {"SELECT", "FROM"} : Cardinality(LinesOf(c, lines)) = 1
            /\ \A c \in {"WHERE", "GROUP BY", "ORDER BY", "LIMIT"} :
                   Cardinality(LinesOf(c, lines)) <= 1
            /\ \A i \in LinesOf("AND", lines) : ClauseOf(lines[i - 1]) \in {"WHERE", "AND"}
            /\ Cardinality(LinesOf("JOIN", lines)) = Len(joins)
            /\ \A n \in DOMAIN joins :
                   /\ lines[2 * n + 1][1] = joins[n].type
                   /\ ClauseOf(lines[2 * n + 2]) = "ON"
            /\ (LinesOf("GROUP BY", lines) # {}
                  <=> Truthy(DictGet(ss.query_conditions, KeyGroupBy, PyList(<<>>))))
            /\ (LinesOf("ORDER BY", lines) # {}
                  <=> Truthy(DictGet(ss.query_conditions, KeySortColumn, PyNone)))

C10_Witness ==
    /\ run.op = "execute"
    /\ run.sent
    /\ Len(ss.join_conditions) = 2
    /\ LET lines == SplitLines(run.sent_text)
       IN  \A c \in {"SELECT", "FROM", "JOIN", "ON", "WHERE", "GROUP BY", "ORDER BY", "LIMIT"} :
               LinesOf(c, lines) # {}

\* the SELECT line the Projection rule describes for a Catalog: the group-by
\* columns, the record count, one SUM per numeric column in column order
ProjectionOf(s, cat) ==
    LET group_by_cols == DictGet(s.query_conditions, KeyGroupBy, PyList(<<>>)).v
        rows == get_table_schema(cat, s.selected_table)
        sums == Concat([i \in DOMAIN rows |->
                    IF rows[i].type \in NumericTypes
                    THEN << <<"SUM(">> \o rows[i].name \o <<") as ">>
                               \o rows[i].name \o <<"_total">> >>
                    ELSE <<>>])
    IN  IF group_by_cols = <<>> THEN <<"SELECT *">>
        ELSE <<"SELECT ">>
             \o JoinText(group_by_cols \o << <<"COUNT(*) as record_count">> >> \o sums, <<", ">>)

\* C11: the first line of a compiled query is "SELECT *" when group_by is
\* empty, and otherwise "SELECT " followed by the group-by columns in their
\* order, COUNT(*) as record_count, and SUM(c) as c_total for every numeric
\* column c of the main table in Catalog order, and nothing else (for a call
\* during which the Catalog stays as it is).
C11_Projection ==
    [][(run.op = "idle" /\ run'.compiled /\ run'.gen.ok /\ cache' = cache) =>
          SplitLines(run'.gen.text)[1] = ProjectionOf(ss, cache)]_vars

\* a query grouped by two columns was compiled and sums the numeric column
C11_Witness ==
    /\ run.op = "generate"
    /\ run.gen.ok
    /\ SplitLines(run.gen.text)[1]
         = <<"SELECT ", "A", ", ", "T2", ".", "K", ", ", "COUNT(*) as record_count", ", ",
             "SUM(", "N", ") as ", "N", "_total">>

\* C12: for each join, in list order, the compiled text holds the line
\* "<type> <db>.<schema>.<table>" immediately followed by the line
\* "  ON <main table>.<left_col> = <table>.<right_col>" (the ON line is
\* indented by two spaces); there are as many such pairs as joins, and they
\* all lie after the FROM line and before any WHERE line.
C12_JoinLines ==
    (Generated /\ run.gen.ok) =>
        LET lines == SplitLines(run.gen.text)
            joins == ss.join_conditions
        IN  /\ Len(lines) >= 2 + 2 * Len(joins)
            /\ \A n \in DOMAIN joins :
                   /\ lines[2 * n + 1] = <<joins[n].type, " ", ss.selected_db, ".",
                                           ss.selected_schema, ".", joins[n].table>>
                   /\ lines[2 * n + 2] = <<"  ON ", ss.selected_table, ".">> \o joins[n].left_col
                                           \o <<" = ", joins[n].table, ".">> \o joins[n].right_col
            /\ Cardinality(LinesOf("JOIN", lines)) = Len(joins)
            /\ Cardinality(LinesOf("ON", lines)) = Len(joins)
            /\ \A i \in LinesOf("JOIN", lines) \cup LinesOf("ON", lines) :
                   /\ \A f \in LinesOf("FROM", lines) : f < i
                   /\ \A w \in LinesOf("WHERE", lines) : i < w

\* two different joins were compiled into a text that also has a WHERE line
C12_Witness ==
    /\ run.op = "generate"
    /\ run.gen.ok
    /\ Len(ss.join_conditions) = 2
    /\ ss.join_conditions[1].type # ss.join_conditions[2].type
    /\ LinesOf("WHERE", SplitLines(run.gen.text)) # {}
    /\ Cardinality(LinesOf("ON", SplitLines(run.gen.text))) = 2

\* the fragments of where_conditions that are IN-lists on column col
InListsOn(frags, col) ==
    {n \in DOMAIN frags : /\ Len(frags[n]) > Len(col) + 1
                          /\ SubSeq(frags[n], 1, Len(col) + 1) = col \o <<" IN ('">>}

\* the values an IN-list fragment lists: what stands between "('" and "')",
\* cut at every "', '"
ListedValues(frag, col) == SplitOn(SubSeq(frag, Len(col) + 2, Len(frag) - 1), "', '")

\* C13: an entry C_in of query_conditions with a non-empty value list compiles
\* to exactly one fragment "C IN ('v1', 'v2', ...)" that lists every value
\* once, in order, each between single quotes with every single quote inside
\* a value doubled and no backslash added; an entry with an empty list
\* compiles to no fragment.
C13_ValueSetFragment ==
    (Generated /\ run.gen.ok) =>
        \A k \in DOMAIN ss.query_conditions :
            LET key == ss.query_conditions[k].key
                value == ss.query_conditions[k].value
                col == SubSeq(key, 1, Len(key) - 1)
                hits == InListsOn(run.gen.where_conditions, col)
            IN  (key # <<>> /\ key[Len(key)] = "_in" /\ value.ty = "list") =>
                    IF value.v = <<>> THEN hits = {}
                    ELSE /\ Cardinality(hits) = 1
                         /\ \A n \in hits :
                              LET frag == run.gen.where_conditions[n]
                                  listed == ListedValues(frag, col)
                              IN  /\ frag[Len(frag)] = "')"
                                  /\ Len(listed) = Len(value.v)
                                  /\ \A i \in DOMAIN listed :
                                       /\ ReplaceTok(listed[i], "''", <<"'">>) = value.v[i]
                                       /\ \A m \in DOMAIN listed[i] :
                                              listed[i][m] \notin {"'", "\\"}

\* a value list with a quote inside a value was compiled
C13_Witness ==
    /\ run.op = "generate"
    /\ run.gen.ok
    /\ \E n \in DOMAIN run.gen.where_conditions :
          run.gen.where_conditions[n]
             = <<"A", " IN ('", "O", "''", "Brien", "', '", "Smith", "')">>
    /\ LinesOf("WHERE", SplitLines(run.gen.text)) # {}

\* the fragments of where_conditions that compare column col with a number
\* through operator op (" >= " or " <= ")
ComparisonsOn(frags, col, op) ==
    {n \in DOMAIN frags : /\ Len(frags[n]) > Len(col) + 1
                          /\ SubSeq(frags[n], 1, Len(col) + 1) = col \o <<op>>}

\* the entries of query_conditions that are not aggregation settings
FilterEntries(conds) == {k \in DOMAIN conds : conds[k].key \notin AggregationKeys}

\* C14: for an entry C_range with numeric bounds {min, max}, a "C >= min"
\* fragment is emitted iff min is not 0 and a "C <= max" fragment iff max is
\* not 0, each whatever the other bound is; {min: 0, max: 0} emits no
\* fragment and, when it is the only filter, the text has no WHERE line.
C14_NumericBounds ==
    (Generated /\ run.gen.ok) =>
        \A k \in DOMAIN ss.query_conditions :
            LET key == ss.query_conditions[k].key
                value == ss.query_conditions[k].value
                col == SubSeq(key, 1, Len(key) - 1)
                frags == run.gen.where_conditions
                ge == ComparisonsOn(frags, col, " >= ")
                le == ComparisonsOn(frags, col, " <= ")
            IN  (key # <<>> /\ key[Len(key)] = "_range" /\ value.ty = "dict"
                    /\ DOMAIN value.v = {"min", "max"}) =>
                    /\ Cardinality(ge) = (IF value.v["min"].v # 0 THEN 1 ELSE 0)
                    /\ Cardinality(le) = (IF value.v["max"].v # 0 THEN 1 ELSE 0)
                    /\ \A n \in ge : frags[n][Len(col) + 2] = ToString(value.v["min"].v)
                    /\ \A n \in le : frags[n][Len(col) + 2] = ToString(value.v["max"].v)
                    /\ \A n \in ge, m \in le : n < m
                    /\ (value.v["min"].v = 0 /\ value.v["max"].v = 0
                          /\ FilterEntries(ss.query_conditions) = {k}) =>
                           /\ frags = <<>>
                           /\ LinesOf("WHERE", SplitLines(run.gen.text)) = {}

\* a lower bound alone was compiled: one ">=" fragment and no "<=" fragment
C14_Witness ==
    /\ run.op = "generate"
    /\ run.gen.ok
    /\ \E k \in DOMAIN ss.query_conditions :
          ss.query_conditions[k]
             = Item(ColN \o <<"_range">>, PyDict([min |-> PyNum(5), max |-> PyNum(0)]))
    /\ run.gen.where_conditions = << <<"N", " >= ", "5">> >>

\* C15: the compiled text ends with the line "LIMIT n" iff limit_rows is set
\* (present and not 0) to an n below 10000; for every n of 10000 or more the
\* text has no LIMIT line at all; when limit_rows is absent from
\* query_conditions the text ends with "LIMIT 1000".
C15_Limit ==
    (Generated /\ run.gen.ok) =>
        LET lines == SplitLines(run.gen.text)
            last == lines[Len(lines)]
            conds == ss.query_conditions
        IN  IF ~HasKey(conds, KeyLimitRows)
            THEN last = <<"LIMIT ", "1000">>
            ELSE LET n == DictGet(conds, KeyLimitRows, PyNone).v
                 IN  IF n # 0 /\ n < 10000
                     THEN /\ last = <<"LIMIT ", ToString(n)>>
                          /\ Cardinality(LinesOf("LIMIT", lines)) = 1
                     ELSE LinesOf("LIMIT", lines) = {}

\* a limit of exactly 10000 was compiled into a text without a LIMIT line
C15_Witness ==
    /\ run.op = "generate"
    /\ run.gen.ok
    /\ DictGet(ss.query_conditions, KeyLimitRows, PyNone) = PyNum(10000)
    /\ LinesOf("LIMIT", SplitLines(run.gen.text)) = {}
    /\ LinesOf("ORDER BY", SplitLines(run.gen.text)) # {}

\* C16: the fragments of where_conditions, in their order, are the WHERE line
\* and the "  AND " lines that follow it: one WHERE clause, placed right after
\* the join lines; with no fragment the text has no WHERE clause; every
\* fragment belongs to an entry that is not an aggregation setting, so
\* group_by, sort_column, sort_order and limit_rows alone leave the text
\* without WHERE.
C16_OneWhereClause ==
    (Generated /\ run.gen.ok) =>
        LET lines == SplitLines(run.gen.text)
            frags == run.gen.where_conditions
            conds == ss.query_conditions
            w == 2 * Len(ss.join_conditions) + 3
        IN  /\ Cardinality(LinesOf("WHERE", lines)) = (IF frags = <<>> THEN 0 ELSE 1)
            /\ Cardinality(LinesOf("AND", lines)) = (IF frags = <<>> THEN 0 ELSE Len(frags) - 1)
            /\ frags # <<>> =>
                 /\ Len(lines) >= w + Len(frags) - 1
                 /\ lines[w] = <<"WHERE ">> \o frags[1]
                 /\ \A n \in 2..Len(frags) : lines[w + n - 1] = <<"  AND ">> \o frags[n]
            /\ \A n \in DOMAIN frags :
                 \E k \in FilterEntries(conds) :
                    LET key == conds[k].key
                        col == SubSeq(key, 1, Len(key) - 1)
                    IN  \/ /\ Len(frags[n]) > Len(col)
                           /\ SubSeq(frags[n], 1, Len(col)) = col
                        \/ /\ key[Len(key)] = "_custom"
                           /\ frags[n] = <<"(">> \o conds[k].value.v \o <<")">>
            /\ FilterEntries(conds) = {} => LinesOf("WHERE", lines) = {}

\* three fragments were compiled into one WHERE clause after a join and
\* before GROUP BY settings that are present
C16_Witness ==
    /\ run.op = "generate"
    /\ run.gen.ok
    /\ Len(run.gen.where_conditions) = 3
    /\ Len(ss.join_conditions) = 1
    /\ HasKey(ss.query_conditions, KeyGroupBy)
    /\ Cardinality(LinesOf("AND", SplitLines(run.gen.text))) = 2

\* the QueryState part of the session
QueryState(s) ==
    <<s.selected_db, s.selected_schema, s.selected_table, s.join_conditions,
      s.filter_conditions, s.query_conditions>>

C18_ClassificationTotal ==
    run.op = "describe" =>
        LET rows == get_table_schema(cache, ss.selected_table)
            cols == run.columns
        IN  /\ Len(cols) = Len(rows)
            /\ \A i \in DOMAIN rows :
                 LET t == rows[i].type
                     c == cols[i].cfg
                 IN  /\ cols[i].name = rows[i].name
                     /\ \A j \in DOMAIN rows : cols[j].name = cols[i].name => j = i
                     /\ c.ty \in {"str", "list"}
                     /\ t \in {"DATE", "TIMESTAMP", "TIMESTAMP_NTZ", "TIMESTAMP_LTZ"}
                          <=> c = PyStr(<<"date_range">>)
                     /\ t \in {"NUMBER", "DECIMAL", "INTEGER", "BIGINT", "FLOAT", "DOUBLE"}
                          <=> c = PyStr(<<"numeric_range">>)
                     /\ t \in {"VARCHAR", "CHAR", "STRING", "TEXT"} =>
                          /\ c.ty = "list"
                          /\ c.v # <<>> =>
                               (c.v = rows[i].distinct /\ rows[i].probe_ok
                                  /\ rows[i].name = <<"STATUS">>)
                     /\ t \notin {"DATE", "TIMESTAMP", "TIMESTAMP_NTZ", "TIMESTAMP_LTZ",
                                  "NUMBER", "DECIMAL", "INTEGER", "BIGINT", "FLOAT", "DOUBLE",
                                  "VARCHAR", "CHAR", "STRING", "TEXT"} => c = PyList(<<>>)

\* a table with a BOOLEAN column and a probed category column was described
C18_Witness ==
    /\ run.op = "describe"
    /\ Len(run.columns) = 2
    /\ get_table_schema(cache, ss.selected_table)[1].type = "BOOLEAN"
    /\ run.columns[1].cfg = PyList(<<>>)
    /\ run.columns[2].cfg = PyList(<< <<"open">>, <<"closed">> >>)

\* table t is listed under schema db.sc of a metadata result
Listed(metadata, db, sc, t) ==
    \E i \in DOMAIN metadata : \E j \in DOMAIN metadata[i].schemas :
        /\ metadata[i].name = db
        /\ metadata[i].schemas[j].name = sc
        /\ \E k \in DOMAIN metadata[i].schemas[j].tables :
               metadata[i].schemas[j].tables[k] = t


\* C19 (as stated): a freshly fetched table listing holds a table iff the
\* listing of its database and of its schema did not fail and the fetch of
\* the table's columns does not fail: a table whose column fetch fails is
\* absent, every other table of the schema is listed, a schema or database
\* whose listing fails is left out while the others are returned.
C19_GracefulDegradation ==
    (run.op \in {"page", "reload"} /\ "metadata" \in run.queried) =>
        \A db \in {DB, DB2}, sc \in {SC, SC2}, t \in {T1, T2} :
            (/\ sc \in {warehouse.tree.schemas[db][j] : j \in DOMAIN warehouse.tree.schemas[db]}
             /\ t \in {warehouse.tree.tables[<<db, sc>>][k] :
                          k \in DOMAIN warehouse.tree.tables[<<db, sc>>]}) =>
                (Listed(run.listing, db, sc, t) <=>
                    /\ ShowDatabases \notin warehouse.down
                    /\ <<db>> \notin warehouse.down
                    /\ <<db, sc>> \notin warehouse.down
                    /\ warehouse.columns[t] # Unfetchable)

\* C20 (as stated): a script run that finds the listing cached serves it
\* without asking the warehouse, and the script run that follows the reload
\* button asks the warehouse again: the listing and the columns it serves are
\* the warehouse's current ones.
C20_ReloadClearsCatalogCache ==
    [][/\ (run'.op = "page" /\ cache.metadata # <<>>) =>
             (run'.listing = cache.metadata[1] /\ "metadata" \notin run'.queried)
       /\ run'.op = "reload" =>
             /\ run'.listing = get_snowflake_metadata(warehouse')
             /\ run'.listing # <<>> =>
                    run'.columns = warehouse'.columns[ss'.selected_table]]_vars

LastSaved(rows, user, config_name) ==
    LET mine == SelectSeq(rows, LAMBDA r : r.user_context = user
                                           /\ r.config_name = config_name)
    IN  IF mine # <<>> /\ mine[Len(mine)].is_active
        THEN <<json_loads(mine[Len(mine)].config_data)>> ELSE <<>>

\* C22: after a save under a name succeeds and the saved configs are
\* reloaded the name is listed, and loading a listed name sets db, schema,
\* table, conditions, join_conditions and filter_conditions of the session to
\* exactly the values that were saved last under that name.
C22_SaveLoadRoundTrip ==
    [][/\ (CfgSave /\ run'.ret) => HasKey(ss'.saved_configs, run'.name)
       /\ (CfgLoad /\ LastSaved(warehouse.rows, UserContext, ss'.alias) # <<>>) =>
             new_config(ss') = LastSaved(warehouse.rows, UserContext, ss'.alias)[1]]_vars

\* ---------------------------------------------------------------- C25
\* C25: the config table holds at most one active row per
\* (user_context, config_name).
C25_OneActiveRowPerName ==
    \A i, j \in DOMAIN warehouse.rows :
        (/\ warehouse.rows[i].is_active
         /\ warehouse.rows[j].is_active
         /\ warehouse.rows[i].user_context = warehouse.rows[j].user_context
         /\ warehouse.rows[i].config_name = warehouse.rows[j].config_name) => i = j

\* ---------------------------------------------------------------- C26
\* C26: when a save (the save button, or the import of a config) returns
\* False for a name that has an active config, that config is still an
\* active row afterwards and the next reload still returns it.
C26_FailedSaveKeepsConfig ==
    [][((CfgSave \/ CfgImport) /\ ~run'.ret) =>
          \A i \in DOMAIN warehouse.rows :
              (/\ warehouse.rows[i].is_active
               /\ warehouse.rows[i].user_context = UserContext
               /\ warehouse.rows[i].config_name = run'.name) =>
                  /\ \E j \in DOMAIN warehouse'.rows : warehouse'.rows[j] = warehouse.rows[i]
                  /\ HasKey(LoadedConfigs(warehouse'.rows, UserContext), run'.name)
                  /\ DictGet(LoadedConfigs(warehouse'.rows, UserContext), run'.name, <<>>)
                       = DictGet(LoadedConfigs(warehouse.rows, UserContext), run'.name, <<>>)]_vars

\* ---------------------------------------------------------------- C28
\* C28: adding or removing a join or a filter in the session, whatever was
\* loaded before, leaves every config of saved_configs as it was.
C28_EditsLeaveSavedConfigs ==
    [][(CfgAddJoin \/ CfgRemoveJoin \/ CfgAddFilter \/ CfgRemoveFilter) =>
          ss'.saved_configs = ss.saved_configs]_vars

\* ---------------------------------------------------------------- C29
\* the names that have an active row of the user
ActiveNames(rows) ==
    {rows[i].config_name : i \in {k \in DOMAIN rows :
                                     rows[k].is_active /\ rows[k].user_context = UserContext}}

\* C29: a press of a delete button deactivates a config only when the
\* matching confirm flag was set before the press, a press of "delete all"
\* deactivates only when confirm_delete_all was set, and after a press that
\* deactivated the flag is False.
C29_DeleteNeedsTwoPresses ==
    [][/\ \A name \in ConfigNames :
            ((CfgDeleteList \/ CfgDeleteCard)
             /\ name \in ActiveNames(warehouse.rows)
             /\ name \notin ActiveNames(warehouse'.rows)) =>
                /\ name \in ss.confirm_delete
                /\ name \notin ss'.confirm_delete
       /\ (CfgDeleteAll /\ warehouse' # warehouse) =>
                /\ ss.confirm_delete_all
                /\ ~ss'.confirm_delete_all]_vars

\* ---------------------------------------------------------------- C24
\* the failure causes of the chat call: the request raises, the status is
\* not 2xx, the body is not valid JSON
ChatFailure(answer) ==
    \/ answer.raises
    \/ answer.status < 200
    \/ answer.status > 299
    \/ ~JsonValid(answer.content)

\* C24: for every failure cause send_message returns None, and
\* process_message does not raise and returns the single error text item.
C24_UniformFailure ==
    (run.op # "idle" /\ ChatFailure(warehouse)) =>
        /\ run.response = ChatNone
        /\ run.op = "process" => (~run.raised /\ run.ret = ChatErrorItem)

\* ---------------------------------------------------------------- C27
\* filter_conditions.pop(i - 1)
WithoutFilter(filters, i) == SubSeq(filters, 1, i - 1) \o SubSeq(filters, i + 1, Len(filters))

\* the condition entry position j of a rendered page writes: what its
\* predicate is compiled from
ShownEntry(s, j) ==
    FilterEntry(s.filter_conditions[j], WidgetAt(s.widgets, s.filter_conditions, j),
                get_dynamic_columns(cache, s.selected_table))

\* C27: the removal of the filter at position i leaves every other filter's
\* column, kind and entered value as they were: after the rerun each remaining
\* filter writes the condition entry it wrote before the removal.
C27_RemovalKeepsOtherFilters ==
    [][\A i \in DOMAIN ss.filter_conditions :
          ( /\ RemoveFilter
            /\ ss = RenderPage(ss, cache)
            /\ ss'.filter_conditions = WithoutFilter(ss.filter_conditions, i)
            /\ \A k \in DOMAIN ss.filter_conditions \ {i} :
                   WithoutFilter(ss.filter_conditions, k) # ss'.filter_conditions )
          => \A j \in DOMAIN ss.filter_conditions \ {i} :
                 LET n == IF j < i THEN j ELSE j - 1
                 IN  /\ ss'.filter_conditions[n] = ss.filter_conditions[j]
                     /\ ShownEntry(ss', n) = ShownEntry(ss, j)]_vars

\* ---------------------------------------------------------------- C30
\* the texts a predicate of a widget family puts right after its column
FamilyOperators(family) ==
    CASE family \in {"select", "input"} -> {" IN ('"}
      [] family = "date"    -> {" >= '", " <= '"}
      [] family = "numeric" -> {" >= ", " <= "}
      [] family = "like"    -> {" LIKE '", " LIKE '%"}
      [] OTHER -> {}

StartsWith(text, prefix) ==
    Len(text) >= Len(prefix) /\ SubSeq(text, 1, Len(prefix)) = prefix

\* C30: the fragments compiled from the entry the filter UI wrote for a
\* filter begin with the filter's column, unmodified, followed by an operator
\* of the kind the user chose (a custom condition is its text in
\* parentheses), also when the column name contains '_in', '_range', '_like'
\* or '_custom'.
C30_PredicateNamesColumn ==
    run.op = "compiled" =>
        LET family == WidgetFamily(ss.w.condition_type, ColumnConfig(ss.row))
        IN  /\ run.frags # <<>>
            /\ \A i \in DOMAIN run.frags :
                   IF family = "custom"
                   THEN run.frags[i] = <<"(">> \o ss.w.custom \o <<")">>
                   ELSE \E op \in FamilyOperators(family) :
                            StartsWith(run.frags[i], ss.row.name \o <<op>>)

\* ---------------------------------------------------------------- C21
\* C21: sessions are isolated: a script run of one session leaves the other
\* session's QueryState as it was, and the Catalog result a run is served from
\* the cache (an empty result of a failed fetch included) was fetched by the
\* session of that run.
C21_SessionsIsolated ==
    /\ [][\A k \in Sessions : run'.who = k => \A o \in Sessions \ {k} : ss'[o] = ss[o]]_vars
    /\ [](run.op = "page" => run.by = run.who)

====
